---------------------------- MODULE Spec2Model ----------------------------
(***************************************************************************)
(* Heap allocator backends of the kernel (src/src/allocator.rs and          *)
(* src/src/allocator/*.rs): the linked-list (free-list) allocator, the bump *)
(* allocator, the fixed-size-block allocator and the Locked<T> wrapper.     *)
(*                                                                          *)
(* The free list is modelled as the sequence of (addr, size) records one    *)
(* meets when following head.next; a node's address is the address of the   *)
(* region it describes.  Addresses are machine words of WordBits bits.      *)
(***************************************************************************)
EXTENDS Integers, Sequences, FiniteSets, TLC

\* ------------------------------------------------------------------ bounds
\* Width of usize in the model (the target has 64).
WordBits == 16
\* Calls made on one allocator before the model stops.
MaxOps == 5
\* Blocks the concurrent callers keep live at once.
MaxLive == 3
\* 16-byte cells of the arena the lists handed to merge_region are cut from.
MergeCells == 5
\* Largest size, and log2 of the largest alignment, handed to list_index.
MaxIndexSize == 2100
MaxIndexAlignLog == 12

\* ------------------------------------------------------- program constants
\* mem::size_of::<ListNode>() of linked_list.rs: a usize and a pointer.
NodeSize == 16
\* mem::align_of::<ListNode>() of linked_list.rs.
NodeAlign == 8
\* ptr::null_mut() as an address.
NullPtr == 0

WordMod == 2 ^ WordBits
MaxAddr == WordMod - 1

Max(a, b) == IF a >= b THEN a ELSE b

\* ------------------------------------------------------------ word helpers
RECURSIVE BitAnd(_, _)
BitAnd(a, b) ==
    IF a = 0 \/ b = 0 THEN 0
    ELSE (a % 2) * (b % 2) + 2 * BitAnd(a \div 2, b \div 2)

BitNot(a) == MaxAddr - a

\* A mutant of align_up: the address is handed back as it is.
align_up_identity(addr, align) == addr

\* A mutant of align_up: the low bits are cleared without adding align - 1
\* first, so the address is rounded down.
align_up_round_down(addr, align) ==
    BitAnd(addr, BitNot((align - 1) % WordMod))


\* fn align_up: (addr + align - 1) & !(align - 1), in wrapping arithmetic.
align_up(addr, align) ==
    BitAnd((addr + align - 1) % WordMod, BitNot((align - 1) % WordMod))

\* usize::checked_add: None (here -1) when the sum does not fit a word.
checked_add(a, b) == IF a + b > MaxAddr THEN -1 ELSE a + b

\* ------------------------------------------------------------------ layout
Layout(size, align) == [size |-> size, align |-> align]

\* Layout::align_to(a).pad_to_align(), then size.max(size_of::<ListNode>()).
size_align(layout) ==
    LET a == Max(layout.align, NodeAlign)
        padded == ((layout.size + a - 1) \div a) * a
    IN  [size |-> Max(padded, NodeSize), align |-> a]

\* --------------------------------------------------------------- ListNode
Region(addr, size) == [addr |-> addr, size |-> size]
start_addr(node) == node.addr
end_addr(node) == node.addr + node.size

\* The two assertions that open add_free_region.
add_free_region_asserts(addr, size) ==
    /\ align_up(addr, NodeAlign) = addr
    /\ size >= NodeSize

\* Index of the node the new one is spliced in front of: the scan stops at the
\* first node whose start address is >= addr (Len + 1: the tail).
RECURSIVE splice_index(_, _, _)
splice_index(list, addr, i) ==
    IF i > Len(list) THEN i
    ELSE IF start_addr(list[i]) >= addr THEN i
    ELSE splice_index(list, addr, i + 1)

InsertAt(list, i, node) ==
    SubSeq(list, 1, i - 1) \o <<node>> \o SubSeq(list, i, Len(list))

\* A mutant of add_free_region: the node is always pushed at the head.
add_free_region_at_head(list, addr, size) == <<Region(addr, size)>> \o list

\* LinkedListAllocator::add_free_region, its assertions aside.
add_free_region(list, addr, size) ==
    IF list = <<>> \/ addr < start_addr(list[1])
    THEN <<Region(addr, size)>> \o list
    ELSE InsertAt(list, splice_index(list, addr, 1), Region(addr, size))

\* LinkedListAllocator::init.
ll_init(heap_start, heap_size) == add_free_region(<<>>, heap_start, heap_size)

\* The loop of merge_region with `current` at the node before index i: node i
\* absorbs node i + 1 when they touch, and `current` then moves to node i.
RECURSIVE merge_from(_, _)
merge_from(list, i) ==
    IF i > Len(list) THEN list
    ELSE IF i + 1 <= Len(list) /\ end_addr(list[i]) = start_addr(list[i + 1])
    THEN merge_from(
            SubSeq(list, 1, i - 1)
              \o <<Region(start_addr(list[i]),
                          end_addr(list[i + 1]) - start_addr(list[i]))>>
              \o SubSeq(list, i + 2, Len(list)),
            i + 1)
    ELSE merge_from(list, i + 1)

\* A mutant of merge_region: the variant that does not coalesce.
merge_region_none(list) == list

\* LinkedListAllocator::merge_region.
merge_region(list) == merge_from(list, 1)

\* A mutant of alloc_from_region: the test of the leftover against the node
\* size is left out.
alloc_from_region_any_excess(region, size, align) ==
    LET alloc_start == align_up(start_addr(region), align)
        alloc_end == checked_add(alloc_start, size)
    IN  IF alloc_end = -1 THEN [ok |-> FALSE, start |-> 0]
        ELSE IF alloc_end > end_addr(region) THEN [ok |-> FALSE, start |-> 0]
        ELSE [ok |-> TRUE, start |-> alloc_start]

\* LinkedListAllocator::alloc_from_region: Ok(alloc_start) or Err(()).
alloc_from_region(region, size, align) ==
    LET alloc_start == align_up(start_addr(region), align)
        alloc_end == checked_add(alloc_start, size)
    IN  IF alloc_end = -1 THEN [ok |-> FALSE, start |-> 0]
        ELSE IF alloc_end > end_addr(region) THEN [ok |-> FALSE, start |-> 0]
        ELSE IF end_addr(region) - alloc_end > 0
                /\ end_addr(region) - alloc_end < NodeSize
        THEN [ok |-> FALSE, start |-> 0]
        ELSE [ok |-> TRUE, start |-> alloc_start]

\* A mutant of find_index: the scan gives up after the first region.
find_index_first_only(list, size, align, i) ==
    IF i > Len(list) THEN 0
    ELSE IF alloc_from_region(list[i], size, align).ok THEN i
    ELSE 0

\* The scan of find_region from index i: the first region alloc_from_region
\* accepts (0: none).
RECURSIVE find_index(_, _, _, _)
find_index(list, size, align, i) ==
    IF i > Len(list) THEN 0
    ELSE IF alloc_from_region(list[i], size, align).ok THEN i
    ELSE find_index(list, size, align, i + 1)

RemoveAt(list, i) == SubSeq(list, 1, i - 1) \o SubSeq(list, i + 1, Len(list))

\* LinkedListAllocator::find_region: the region found is unlinked.
find_region(list, size, align) ==
    LET i == find_index(list, size, align, 1)
    IN  IF i = 0
        THEN [found |-> FALSE, region |-> Region(0, 0), alloc_start |-> 0,
              list |-> list]
        ELSE [found |-> TRUE, region |-> list[i],
              alloc_start |-> alloc_from_region(list[i], size, align).start,
              list |-> RemoveAt(list, i)]

\* The body of GlobalAlloc::alloc for Locked<LinkedListAllocator>, under the
\* lock: the pointer returned, the list afterwards, and whether an assertion
\* of add_free_region or the expect("overflow") stopped the kernel.
ll_alloc(list, layout) ==
    LET sa == size_align(layout)
        f == find_region(list, sa.size, sa.align)
        alloc_end == checked_add(f.alloc_start, sa.size)
        excess_size == end_addr(f.region) - alloc_end
    IN  IF ~f.found THEN [ptr |-> NullPtr, list |-> list, panic |-> FALSE]
        ELSE IF alloc_end = -1
        THEN [ptr |-> NullPtr, list |-> f.list, panic |-> TRUE]
        ELSE IF excess_size > 0
        THEN IF add_free_region_asserts(alloc_end, excess_size)
             THEN [ptr |-> f.alloc_start,
                   list |-> add_free_region(f.list, alloc_end, excess_size),
                   panic |-> FALSE]
             ELSE [ptr |-> NullPtr, list |-> f.list, panic |-> TRUE]
        ELSE [ptr |-> f.alloc_start, list |-> f.list, panic |-> FALSE]

\* A mutant of ll_dealloc: the freed span is not put back on the list.
ll_dealloc_leak(list, ptr, layout) == [list |-> list, panic |-> FALSE]

\* The body of GlobalAlloc::dealloc for Locked<LinkedListAllocator> when no
\* other caller runs between its two lock() calls.
ll_dealloc(list, ptr, layout) ==
    LET sa == size_align(layout)
    IN  IF add_free_region_asserts(ptr, sa.size)
        THEN [list |-> merge_region(add_free_region(list, ptr, sa.size)),
              panic |-> FALSE]
        ELSE [list |-> list, panic |-> TRUE]


\* =================================================================== state
VARIABLES
    arena,       \* the (start, size) pair handed to init
    free,        \* LinkedListAllocator: the nodes reached from head.next
    live,        \* blocks handed out and not yet given back, with their layout
    trace,       \* the calls made so far, with what each returned
    panicked,    \* an assertion or expect() stopped the kernel
    bump,        \* BumpAllocator: heap_start, heap_end, next, allocations
    list_heads,  \* FixedSizeBlockAllocator: one stack of blocks per class
    lock,        \* spin::Mutex of Locked<T>: the caller holding it, or NoCaller
    pc,          \* where each caller stands in its call
    local,       \* the arguments of each caller's call in progress
    arg,         \* input of the function under test
    ret          \* its result

vars == <<arena, free, live, trace, panicked, bump, list_heads, lock, pc,
          local, arg, ret>>

Arena(start, size) == [start |-> start, size |-> size]
Block(ptr, layout) == [ptr |-> ptr, layout |-> layout]
NoCaller == "none"

\* The arenas and requests the free-list runs draw from.
LLArenas == {Arena(4096, 40), Arena(4096, 256), Arena(4096, 4096)}
LLRequests ==
    {Layout(8, 8), Layout(24, 8), Layout(64, 8), Layout(256, 8), Layout(8, 16)}

\* What a state leaves alone when the backend it belongs to is not running.
BumpIdle == [heap_start |-> 0, heap_end |-> 0, next |-> 0, allocations |-> 0]
NoBuckets == <<>>
UnusedBump == bump' = bump
UnusedBuckets == list_heads' = list_heads
UnusedCallers == UNCHANGED <<lock, pc, local>>
UnusedFunction == UNCHANGED <<arg, ret>>

\* ------------------------------------------- free-list backend, one caller
\* init_heap's ALLOCATOR.lock().init(HEAP_START, HEAP_SIZE) has run.
LLInit ==
    /\ arena \in LLArenas
    /\ free = ll_init(arena.start, arena.size)
    /\ live = {}
    /\ trace = <<>>
    /\ panicked = FALSE
    /\ bump = BumpIdle
    /\ list_heads = NoBuckets
    /\ lock = NoCaller
    /\ pc = <<>>
    /\ local = <<>>
    /\ arg = 0
    /\ ret = 0

\* One call of GlobalAlloc::alloc on Locked<LinkedListAllocator>.
LLAlloc(layout) ==
    /\ ~panicked
    /\ Len(trace) < MaxOps
    /\ LET r == ll_alloc(free, layout)
       IN  /\ free' = r.list
           /\ panicked' = r.panic
           /\ live' = IF r.ptr # NullPtr THEN live \cup {Block(r.ptr, layout)}
                      ELSE live
           /\ trace' = Append(trace,
                  [op |-> "alloc", layout |-> layout, ptr |-> r.ptr])
    /\ UNCHANGED arena
    /\ UnusedBump /\ UnusedBuckets /\ UnusedCallers /\ UnusedFunction

\* One call of GlobalAlloc::dealloc on a live block with its own layout.
LLDealloc(b) ==
    /\ ~panicked
    /\ Len(trace) < MaxOps
    /\ LET r == ll_dealloc(free, b.ptr, b.layout)
       IN  /\ free' = r.list
           /\ panicked' = r.panic
    /\ live' = live \ {b}
    /\ trace' = Append(trace,
           [op |-> "dealloc", layout |-> b.layout, ptr |-> b.ptr])
    /\ UNCHANGED arena
    /\ UnusedBump /\ UnusedBuckets /\ UnusedCallers /\ UnusedFunction

LLNext ==
    \/ \E layout \in LLRequests : LLAlloc(layout)
    \/ \E b \in live : LLDealloc(b)

Spec == LLInit /\ [][LLNext]_vars


\* ------------------------------------------------ what the claims speak of
RECURSIVE FreeBytes(_)
FreeBytes(list) ==
    IF list = <<>> THEN 0 ELSE Head(list).size + FreeBytes(Tail(list))

\* The bytes a live block owns: its layout as size_align pads it.
BlockSize(b) == size_align(b.layout).size
BlockEnd(b) == b.ptr + BlockSize(b)

RECURSIVE LiveBytes(_)
LiveBytes(blocks) ==
    IF blocks = {} THEN 0
    ELSE LET b == CHOOSE x \in blocks : TRUE
         IN  BlockSize(b) + LiveBytes(blocks \ {b})

Disjoint(a1, e1, a2, e2) == e1 <= a2 \/ e2 <= a1
WholeArena == <<Region(arena.start, arena.size)>>
ArenaEnd == arena.start + arena.size
LastCall == trace[Len(trace)]

\* C1: in every state reached by init and valid allocate/deallocate calls the
\* regions of the free list do not overlap and their start addresses strictly
\* increase along the list.
C1_FreeListOrderedDisjoint ==
    \A i \in 1..(Len(free) - 1) :
        /\ start_addr(free[i]) < start_addr(free[i + 1])
        /\ end_addr(free[i]) <= start_addr(free[i + 1])

\* C1's case: a deallocate has put a region in front of another one while a
\* block between them is still live.
C1_Witness ==
    /\ Len(free) >= 2
    /\ live # {}
    /\ trace # <<>> /\ LastCall.op = "dealloc"
    /\ end_addr(free[1]) < start_addr(free[2])

\* C2: every block a successful allocate returned is aligned to the requested
\* alignment, lies inside the arena, and overlaps no other live block and no
\* region of the free list.
C2_AllocatedBlockSafe ==
    \A b \in live :
        /\ b.ptr % b.layout.align = 0
        /\ arena.start <= b.ptr /\ BlockEnd(b) <= ArenaEnd
        /\ \A c \in live \ {b} :
               Disjoint(b.ptr, BlockEnd(b), c.ptr, BlockEnd(c))
        /\ \A i \in 1..Len(free) :
               Disjoint(b.ptr, BlockEnd(b), start_addr(free[i]), end_addr(free[i]))

\* C2's case: a 16-aligned block was carved from a region that starts at an
\* address that is not a multiple of 16, next to another live block, with free
\* regions left.
C2_Witness ==
    /\ free # <<>>
    /\ \E b, c \in live :
           /\ b.layout.align = 16
           /\ BlockEnd(c) < b.ptr
           /\ BlockEnd(c) % 16 # 0

\* C5: at every quiescent point the sizes of the free regions and the padded
\* sizes of the live blocks add up to the arena size.
C5_Conservation == FreeBytes(free) + LiveBytes(live) = arena.size

\* The trace is n rounds of `allocate(64, 8), then deallocate that block'.
RoundTrips(n) ==
    /\ Len(trace) = 2 * n
    /\ \A k \in 1..n :
           /\ trace[2 * k - 1].op = "alloc"
           /\ trace[2 * k - 1].layout = Layout(64, 8)
           /\ trace[2 * k].op = "dealloc"
           /\ trace[2 * k].ptr = trace[2 * k - 1].ptr
           /\ trace[2 * k].layout = Layout(64, 8)

\* C7: on a fresh arena, after any number of rounds of `allocate(64, 8), then
\* deallocate the block returned', every allocate succeeded and the free list
\* is again the single region that covers the whole arena.
C7_RoundTrip ==
    \A n \in 1..(MaxOps + 1) :
        RoundTrips(n) =>
            /\ \A k \in 1..n : trace[2 * k - 1].ptr # NullPtr
            /\ free = WholeArena

\* C7's case: two rounds done on the 4096-byte arena.
C7_Witness == arena.size = 4096 /\ RoundTrips(2)

\* The trace starts with two allocations of 8 bytes (align 8), both freed in
\* reverse order of allocation, and then an allocation of 256 bytes.
ReverseFreeScenario ==
    /\ Len(trace) >= 5
    /\ trace[1].op = "alloc" /\ trace[1].layout = Layout(8, 8)
    /\ trace[2].op = "alloc" /\ trace[2].layout = Layout(8, 8)
    /\ trace[3].op = "dealloc" /\ trace[3].ptr = trace[2].ptr
    /\ trace[4].op = "dealloc" /\ trace[4].ptr = trace[1].ptr
    /\ trace[5].op = "alloc" /\ trace[5].layout = Layout(256, 8)

\* C8: with arena [0x1000, 0x1100), after two allocations of 8 bytes (align 8)
\* freed in reverse order, the allocation of 256 bytes returns 0x1000.
C8_ReverseFreeThenWhole ==
    (arena = Arena(4096, 256) /\ ReverseFreeScenario) => trace[5].ptr = 4096

\* C8's case: the five calls of the scenario have been made.
C8_Witness ==
    /\ arena = Arena(4096, 256)
    /\ ReverseFreeScenario
    /\ trace[1].ptr # NullPtr /\ trace[2].ptr # NullPtr


\* -------------------------------------------------- merge_region on its own
\* The address-ordered lists of pairwise disjoint regions made of whole
\* NodeSize cells of a MergeCells-cell arena at 0x1000.  A marking says of each
\* cell whether it is in use, opens a free region or extends the free region
\* of the cell before it.
CellMarkings ==
    {m \in [1..MergeCells -> {"used", "open", "extend"}] :
        \A i \in 1..MergeCells :
            m[i] = "extend" => (i > 1 /\ m[i - 1] # "used")}

RECURSIVE RunLength(_, _)
RunLength(m, i) ==
    IF i + 1 <= MergeCells /\ m[i + 1] = "extend"
    THEN 1 + RunLength(m, i + 1) ELSE 1

RECURSIVE RegionsFrom(_, _)
RegionsFrom(m, i) ==
    IF i > MergeCells THEN <<>>
    ELSE IF m[i] = "open"
    THEN <<Region(4096 + NodeSize * (i - 1), NodeSize * RunLength(m, i))>>
            \o RegionsFrom(m, i + 1)
    ELSE RegionsFrom(m, i + 1)

OrderedLists == {RegionsFrom(m, 1) : m \in CellMarkings}

MergeInit ==
    /\ arg \in OrderedLists
    /\ ret = <<>>
    /\ pc = "start"
    /\ arena = Arena(4096, NodeSize * MergeCells)
    /\ free = <<>>
    /\ live = {}
    /\ trace = <<>>
    /\ panicked = FALSE
    /\ bump = BumpIdle
    /\ list_heads = NoBuckets
    /\ lock = NoCaller
    /\ local = <<>>

\* One call of merge_region on the list drawn.
MergeCall ==
    /\ pc = "start"
    /\ ret' = merge_region(arg)
    /\ pc' = "done"
    /\ UNCHANGED <<arg, arena, free, live, trace, panicked, bump, list_heads,
                   lock, local>>

MergeNext == MergeCall

SpecMerge == MergeInit /\ [][MergeNext]_vars

NoAdjacent(list) ==
    \A i \in 1..(Len(list) - 1) : end_addr(list[i]) # start_addr(list[i + 1])

\* C4: when merge_region returns, no region's end address equals the start
\* address of its successor, also when three or more consecutive regions
\* touched before the pass.
C4_MergeCascades == pc = "done" => NoAdjacent(ret)


\* ----------------------------------------- free-list backend, two callers
\* Locked<LinkedListAllocator> shared by the callers.  lock() spins until the
\* mutex is free; a MutexGuard gives it back when it is dropped: at the end of
\* alloc, and in dealloc at the end of each of the two statements that call
\* self.lock().
Callers == {"c1", "c2"}
ConcRequests == {Layout(8, 8), Layout(64, 8)}

\* Nothing in progress: what `local' holds for a caller outside a call.
NoCall == Block(NullPtr, Layout(0, 1))

ConcInit ==
    /\ arena = Arena(4096, 128)
    /\ free = ll_init(arena.start, arena.size)
    /\ live = {}
    /\ trace = <<>>
    /\ panicked = FALSE
    /\ bump = BumpIdle
    /\ list_heads = NoBuckets
    /\ lock = NoCaller
    /\ pc = [p \in Callers |-> "idle"]
    /\ local = [p \in Callers |-> NoCall]
    /\ arg = 0
    /\ ret = 0

ConcFrame == UNCHANGED <<arena, trace, bump, list_heads, arg, ret>>

\* alloc: `let mut allocator = self.lock();`
AllocLock(p, layout) ==
    /\ ~panicked
    /\ pc[p] = "idle"
    /\ Cardinality(live) < MaxLive
    /\ lock = NoCaller
    /\ lock' = p
    /\ pc' = [pc EXCEPT ![p] = "alloc"]
    /\ local' = [local EXCEPT ![p] = Block(NullPtr, layout)]
    /\ UNCHANGED <<free, live, panicked>>
    /\ ConcFrame

\* alloc: the rest of the function, and the guard dropped on return.
AllocBody(p) ==
    /\ ~panicked
    /\ pc[p] = "alloc"
    /\ LET r == ll_alloc(free, local[p].layout)
       IN  /\ free' = r.list
           /\ panicked' = r.panic
           /\ live' = IF r.ptr # NullPtr
                      THEN live \cup {Block(r.ptr, local[p].layout)}
                      ELSE live
    /\ lock' = NoCaller
    /\ pc' = [pc EXCEPT ![p] = "idle"]
    /\ local' = [local EXCEPT ![p] = NoCall]
    /\ ConcFrame

\* dealloc: the lock() of `self.lock().add_free_region(ptr as usize, size);`
DeallocLockAdd(p, b) ==
    /\ ~panicked
    /\ pc[p] = "idle"
    /\ lock = NoCaller
    /\ lock' = p
    /\ pc' = [pc EXCEPT ![p] = "dealloc_add"]
    /\ local' = [local EXCEPT ![p] = b]
    /\ live' = live \ {b}
    /\ UNCHANGED <<free, panicked>>
    /\ ConcFrame

\* A mutant of DeallocAdd: the guard of the first lock() is still held when
\* the statement ends.
DeallocAdd_keeps_guard(p) ==
    /\ ~panicked
    /\ pc[p] = "dealloc_add"
    /\ free' = add_free_region(free, local[p].ptr,
                               size_align(local[p].layout).size)
    /\ panicked' = FALSE
    /\ lock' = p
    /\ pc' = [pc EXCEPT ![p] = "dealloc_between"]
    /\ UNCHANGED <<live, local>>
    /\ ConcFrame

\* dealloc: add_free_region, and the temporary guard dropped at the end of
\* the statement.
DeallocAdd(p) ==
    /\ ~panicked
    /\ pc[p] = "dealloc_add"
    /\ LET size == size_align(local[p].layout).size
       IN  IF add_free_region_asserts(local[p].ptr, size)
           THEN /\ free' = add_free_region(free, local[p].ptr, size)
                /\ panicked' = FALSE
           ELSE /\ free' = free
                /\ panicked' = TRUE
    /\ lock' = NoCaller
    /\ pc' = [pc EXCEPT ![p] = "dealloc_between"]
    /\ UNCHANGED <<live, local>>
    /\ ConcFrame

\* dealloc: the lock() of `self.lock().merge_region();`
DeallocLockMerge(p) ==
    /\ ~panicked
    /\ pc[p] = "dealloc_between"
    /\ lock = NoCaller
    /\ lock' = p
    /\ pc' = [pc EXCEPT ![p] = "dealloc_merge"]
    /\ UNCHANGED <<free, live, panicked, local>>
    /\ ConcFrame

\* dealloc: merge_region, and the temporary guard dropped.
DeallocMerge(p) ==
    /\ ~panicked
    /\ pc[p] = "dealloc_merge"
    /\ free' = merge_region(free)
    /\ lock' = NoCaller
    /\ pc' = [pc EXCEPT ![p] = "idle"]
    /\ local' = [local EXCEPT ![p] = NoCall]
    /\ UNCHANGED <<live, panicked>>
    /\ ConcFrame

ConcNext ==
    \E p \in Callers :
        \/ \E layout \in ConcRequests : AllocLock(p, layout)
        \/ AllocBody(p)
        \/ \E b \in live : DeallocLockAdd(p, b)
        \/ DeallocAdd(p)
        \/ DeallocLockMerge(p)
        \/ DeallocMerge(p)

SpecConc == ConcInit /\ [][ConcNext]_vars

\* C3: every allocate and deallocate holds the allocator lock for its full
\* duration; in particular, while one caller's deallocate stands between its
\* insertion of the freed region and its coalescing pass, no other caller is
\* inside the lock, so nobody works on the inserted-but-not-merged list.
C3_DeallocAtomic ==
    \A p \in Callers :
        pc[p] = "dealloc_between" => \A q \in Callers \ {p} : lock # q


\* ------------------------------------------------------------ bump backend
\* BumpAllocator::new() followed by BumpAllocator::init.
bump_init(heap_start, heap_size) ==
    [heap_start |-> heap_start, heap_end |-> heap_start + heap_size,
     next |-> heap_start, allocations |-> 0]

\* GlobalAlloc::alloc for Locked<BumpAllocator>, under the lock.
bump_alloc(b, layout) ==
    LET alloc_start == align_up(b.next, layout.align)
        alloc_end == checked_add(alloc_start, layout.size)
    IN  IF alloc_end = -1 THEN [ptr |-> NullPtr, bump |-> b]
        ELSE IF alloc_end > b.heap_end THEN [ptr |-> NullPtr, bump |-> b]
        ELSE [ptr |-> alloc_start,
              bump |-> [b EXCEPT !.next = alloc_end,
                                 !.allocations = b.allocations + 1]]

\* A mutant of bump_dealloc: the reset at a live count of zero is left out.
bump_dealloc_no_reset(b, ptr, layout) ==
    IF ptr + layout.size = b.next
    THEN [b EXCEPT !.allocations = b.allocations - 1, !.next = ptr]
    ELSE [b EXCEPT !.allocations = b.allocations - 1]

\* A mutant of bump_dealloc: the cursor is never pulled back to the start of
\* a freed block, only reset at a live count of zero.
bump_dealloc_no_retract(b, ptr, layout) ==
    LET counted == [b EXCEPT !.allocations = b.allocations - 1]
    IN  IF counted.allocations = 0
        THEN [counted EXCEPT !.next = counted.heap_start]
        ELSE counted

\* A mutant of bump_dealloc: the cursor is pulled back to the start of every
\* freed block, wherever the block ends.
bump_dealloc_always_retract(b, ptr, layout) ==
    LET counted == [b EXCEPT !.allocations = b.allocations - 1,
                             !.next = ptr]
    IN  IF counted.allocations = 0
        THEN [counted EXCEPT !.next = counted.heap_start]
        ELSE counted

\* A mutant of bump_dealloc: the cursor goes back to heap_start at every
\* deallocate, whatever the live count.
bump_dealloc_always_reset(b, ptr, layout) ==
    [b EXCEPT !.allocations = b.allocations - 1, !.next = b.heap_start]

\* GlobalAlloc::dealloc for Locked<BumpAllocator>, under the lock.
bump_dealloc(b, ptr, layout) ==
    LET counted == [b EXCEPT !.allocations = b.allocations - 1]
        retracted == IF ptr + layout.size = counted.next
                     THEN [counted EXCEPT !.next = ptr] ELSE counted
    IN  IF retracted.allocations = 0
        THEN [retracted EXCEPT !.next = retracted.heap_start]
        ELSE retracted

BumpArenas == {Arena(4096, 256), Arena(4096, 1024)}
BumpRequests ==
    {Layout(100, 1), Layout(50, 1), Layout(8, 8), Layout(256, 8), Layout(8, 16)}

BumpInit ==
    /\ arena \in BumpArenas
    /\ bump = bump_init(arena.start, arena.size)
    /\ live = {}
    /\ trace = <<>>
    /\ panicked = FALSE
    /\ free = <<>>
    /\ list_heads = NoBuckets
    /\ lock = NoCaller
    /\ pc = <<>>
    /\ local = <<>>
    /\ arg = 0
    /\ ret = 0

BumpFrame ==
    UNCHANGED <<arena, panicked, free, list_heads, lock, pc, local, arg, ret>>

\* One call of GlobalAlloc::alloc on Locked<BumpAllocator>.
BumpAlloc(layout) ==
    /\ Len(trace) < MaxOps
    /\ LET r == bump_alloc(bump, layout)
       IN  /\ bump' = r.bump
           /\ live' = IF r.ptr # NullPtr THEN live \cup {Block(r.ptr, layout)}
                      ELSE live
           /\ trace' = Append(trace,
                  [op |-> "alloc", layout |-> layout, ptr |-> r.ptr])
    /\ BumpFrame

\* One call of GlobalAlloc::dealloc on a live block with its own layout.
BumpDealloc(b) ==
    /\ Len(trace) < MaxOps
    /\ bump' = bump_dealloc(bump, b.ptr, b.layout)
    /\ live' = live \ {b}
    /\ trace' = Append(trace,
           [op |-> "dealloc", layout |-> b.layout, ptr |-> b.ptr])
    /\ BumpFrame

BumpNext ==
    \/ \E layout \in BumpRequests : BumpAlloc(layout)
    \/ \E b \in live : BumpDealloc(b)

SpecBump == BumpInit /\ [][BumpNext]_vars

\* The bytes the callers hold: the bump allocator hands out layout.size bytes.
RECURSIVE RequestedBytes(_)
RequestedBytes(blocks) ==
    IF blocks = {} THEN 0
    ELSE LET b == CHOOSE x \in blocks : TRUE
         IN  b.layout.size + RequestedBytes(blocks \ {b})

BumpFreeBytes == bump.heap_end - bump.next

\* C6 as claimed: at every quiescent point heap_end minus the cursor, plus the
\* bytes of the live blocks, equals the arena size.
C6_BumpConservation == BumpFreeBytes + RequestedBytes(live) = arena.size

\* C6 as amended: heap_end minus the cursor, plus the bytes of the live
\* blocks, never exceeds the arena size, and equals it whenever no block is
\* live.
C6_BumpConservationAmended ==
    /\ BumpFreeBytes + RequestedBytes(live) <= arena.size
    /\ live = {} => BumpFreeBytes = arena.size

\* C6's case: a block was freed while a block allocated after it was still
\* live, and now the last block has gone and the cursor is back at heap_start.
C6_Witness ==
    /\ live = {}
    /\ Len(trace) >= 4
    /\ LastCall.op = "dealloc"
    /\ \E i \in 1..Len(trace) :
           /\ trace[i].op = "alloc" /\ trace[i].ptr # NullPtr
           /\ LastCall.ptr + LastCall.layout.size < trace[i].ptr
    /\ bump.next = bump.heap_start


\* ------------------------------------------------ fixed-size-block backend
BLOCK_SIZES == <<8, 16, 32, 64, 128, 256, 512, 1024, 2048>>
\* Option::None of list_index.
NoIndex == -1

\* Iterator::position from index i (0-based, as in the code).
RECURSIVE position_from(_, _)
position_from(required_block_size, i) ==
    IF i >= Len(BLOCK_SIZES) THEN NoIndex
    ELSE IF BLOCK_SIZES[i + 1] >= required_block_size THEN i
    ELSE position_from(required_block_size, i + 1)

\* A mutant of list_index: the alignment is not taken into account.
list_index_size_only(layout) == position_from(layout.size, 0)

\* fn list_index.
list_index(layout) == position_from(Max(layout.size, layout.align), 0)

\* ------------------------------------------------- list_index on its own
IndexInputs ==
    {Layout(size, 2 ^ k) : size \in 0..MaxIndexSize, k \in 0..MaxIndexAlignLog}

IndexInit ==
    /\ arg \in IndexInputs
    /\ ret = NoIndex
    /\ pc = "start"
    /\ arena = Arena(0, 0)
    /\ free = <<>>
    /\ live = {}
    /\ trace = <<>>
    /\ panicked = FALSE
    /\ bump = BumpIdle
    /\ list_heads = NoBuckets
    /\ lock = NoCaller
    /\ local = <<>>

\* One call of list_index on the layout drawn.
IndexCall ==
    /\ pc = "start"
    /\ ret' = list_index(arg)
    /\ pc' = "done"
    /\ UNCHANGED <<arg, arena, free, live, trace, panicked, bump, list_heads,
                   lock, local>>

IndexNext == IndexCall

SpecIndex == IndexInit /\ [][IndexNext]_vars

RoutingKey(layout) == Max(layout.size, layout.align)
ClassesFor(layout) ==
    {i \in 0..(Len(BLOCK_SIZES) - 1) : BLOCK_SIZES[i + 1] >= RoutingKey(layout)}

\* C10: list_index returns the index of the smallest class of the ladder that
\* is >= max(size, align), and no class exactly when max(size, align) > 2048;
\* size 10, align 4 goes to the 16-byte class.
C10_ClassRouting ==
    pc = "done" =>
        /\ (ret = NoIndex) <=> (RoutingKey(arg) > 2048)
        /\ ret # NoIndex =>
               /\ ret \in ClassesFor(arg)
               /\ \A i \in ClassesFor(arg) :
                      BLOCK_SIZES[ret + 1] <= BLOCK_SIZES[i + 1]
        /\ arg = Layout(10, 4) => BLOCK_SIZES[ret + 1] = 16

\* C10's case: the request of size 10, align 4 has been routed.
C10_Witness == pc = "done" /\ arg = Layout(10, 4) /\ ret = 1


\* ------------------------------------- fixed-size-block backend, one caller
\* LinkedListAllocator::allocate, which fallback_alloc calls: the free-list
\* backend's alloc(layout): pad the layout, find a region, carve the block from
\* its start and put the leftover back.
fallback_allocate(list, layout) == ll_alloc(list, layout)

\* LinkedListAllocator::deallocate, which dealloc calls for a layout of no
\* class: the free-list backend's dealloc(ptr, layout): put the padded span
\* back and coalesce.
fallback_deallocate(list, ptr, layout) == ll_dealloc(list, ptr, layout)

\* FixedSizeBlockAllocator::new(): every list head is None.
fsb_new == [i \in 0..(Len(BLOCK_SIZES) - 1) |-> <<>>]

\* FixedSizeBlockAllocator::fallback_alloc.
fallback_alloc(list, layout) == fallback_allocate(list, layout)

\* A mutant of fsb_alloc: the bucket is never looked at, every block comes
\* from the fallback allocator.
fsb_alloc_always_fallback(heads, list, layout) ==
    LET index == list_index(layout)
        r == IF index # NoIndex
             THEN fallback_alloc(list, Layout(BLOCK_SIZES[index + 1],
                                              BLOCK_SIZES[index + 1]))
             ELSE fallback_alloc(list, layout)
    IN  [ptr |-> r.ptr, heads |-> heads, list |-> r.list, panic |-> r.panic]

\* A mutant of fsb_alloc: with an empty bucket the fallback allocator is asked
\* for the caller's layout, not for a block of the class.
fsb_alloc_original_layout(heads, list, layout) ==
    LET index == list_index(layout)
    IN  IF index # NoIndex /\ heads[index] # <<>>
        THEN [ptr |-> Head(heads[index]),
              heads |-> [heads EXCEPT ![index] = Tail(heads[index])],
              list |-> list, panic |-> FALSE]
        ELSE LET r == fallback_alloc(list, layout)
             IN  [ptr |-> r.ptr, heads |-> heads, list |-> r.list,
                  panic |-> r.panic]

\* A mutant of fsb_alloc: the head of the bucket is returned and stays the
\* head of the bucket.
fsb_alloc_no_pop(heads, list, layout) ==
    LET index == list_index(layout)
    IN  IF index # NoIndex /\ heads[index] # <<>>
        THEN [ptr |-> Head(heads[index]), heads |-> heads, list |-> list,
              panic |-> FALSE]
        ELSE LET r == fallback_alloc(list,
                        IF index # NoIndex
                        THEN Layout(BLOCK_SIZES[index + 1], BLOCK_SIZES[index + 1])
                        ELSE layout)
             IN  [ptr |-> r.ptr, heads |-> heads, list |-> r.list,
                  panic |-> r.panic]

\* GlobalAlloc::alloc for Locked<FixedSizeBlockAllocator>, under the lock.
fsb_alloc(heads, list, layout) ==
    LET index == list_index(layout)
    IN  IF index # NoIndex
        THEN IF heads[index] # <<>>
             THEN [ptr |-> Head(heads[index]),
                   heads |-> [heads EXCEPT ![index] = Tail(heads[index])],
                   list |-> list, panic |-> FALSE]
             ELSE LET block_size == BLOCK_SIZES[index + 1]
                      r == fallback_alloc(list, Layout(block_size, block_size))
                  IN  [ptr |-> r.ptr, heads |-> heads, list |-> r.list,
                       panic |-> r.panic]
        ELSE LET r == fallback_alloc(list, layout)
             IN  [ptr |-> r.ptr, heads |-> heads, list |-> r.list,
                  panic |-> r.panic]

\* size_of and align_of of fixed_size_block.rs's ListNode: one pointer.
BucketNodeSize == 8

\* A mutant of fsb_dealloc: every block goes back to the fallback allocator.
fsb_dealloc_to_fallback(heads, list, ptr, layout) ==
    LET r == fallback_deallocate(list, ptr, layout)
    IN  [heads |-> heads, list |-> r.list, panic |-> r.panic]

\* A mutant of fsb_dealloc: every block of a size class is pushed on the
\* bucket of the smallest class.
fsb_dealloc_first_bucket(heads, list, ptr, layout) ==
    LET index == list_index(layout)
    IN  IF index # NoIndex
        THEN [heads |-> [heads EXCEPT ![0] = <<ptr>> \o heads[0]],
              list |-> list, panic |-> FALSE]
        ELSE LET r == fallback_deallocate(list, ptr, layout)
             IN  [heads |-> heads, list |-> r.list, panic |-> r.panic]

\* A mutant of fsb_dealloc: the block is linked behind the blocks the bucket
\* holds, not in front of them.
fsb_dealloc_push_tail(heads, list, ptr, layout) ==
    LET index == list_index(layout)
    IN  IF index # NoIndex
        THEN [heads |-> [heads EXCEPT ![index] = heads[index] \o <<ptr>>],
              list |-> list, panic |-> FALSE]
        ELSE LET r == fallback_deallocate(list, ptr, layout)
             IN  [heads |-> heads, list |-> r.list, panic |-> r.panic]

\* GlobalAlloc::dealloc for Locked<FixedSizeBlockAllocator>, under the lock.
fsb_dealloc(heads, list, ptr, layout) ==
    LET index == list_index(layout)
    IN  IF index # NoIndex
        THEN IF BucketNodeSize <= BLOCK_SIZES[index + 1]
             THEN [heads |-> [heads EXCEPT ![index] = <<ptr>> \o heads[index]],
                   list |-> list, panic |-> FALSE]
             ELSE [heads |-> heads, list |-> list, panic |-> TRUE]
        ELSE LET r == fallback_deallocate(list, ptr, layout)
             IN  [heads |-> heads, list |-> r.list, panic |-> r.panic]

FSBArenas == {Arena(4096, 256), Arena(4096, 4096)}
FSBRequests ==
    {Layout(8, 8), Layout(10, 4), Layout(256, 8), Layout(2056, 8)}

\* FixedSizeBlockAllocator::init has run.
FSBInit ==
    /\ arena \in FSBArenas
    /\ list_heads = fsb_new
    /\ free = ll_init(arena.start, arena.size)
    /\ live = {}
    /\ trace = <<>>
    /\ panicked = FALSE
    /\ bump = BumpIdle
    /\ lock = NoCaller
    /\ pc = <<>>
    /\ local = <<>>
    /\ arg = 0
    /\ ret = 0

FSBFrame == UNCHANGED <<arena, bump, lock, pc, local, arg, ret>>

\* One call of GlobalAlloc::alloc on Locked<FixedSizeBlockAllocator>.
FSBAlloc(layout) ==
    /\ ~panicked
    /\ Len(trace) < MaxOps
    /\ LET r == fsb_alloc(list_heads, free, layout)
       IN  /\ list_heads' = r.heads
           /\ free' = r.list
           /\ panicked' = r.panic
           /\ live' = IF r.ptr # NullPtr THEN live \cup {Block(r.ptr, layout)}
                      ELSE live
           /\ trace' = Append(trace,
                  [op |-> "alloc", layout |-> layout, ptr |-> r.ptr])
    /\ FSBFrame

\* One call of GlobalAlloc::dealloc on a live block with its own layout.
FSBDealloc(b) ==
    /\ ~panicked
    /\ Len(trace) < MaxOps
    /\ LET r == fsb_dealloc(list_heads, free, b.ptr, b.layout)
       IN  /\ list_heads' = r.heads
           /\ free' = r.list
           /\ panicked' = r.panic
    /\ live' = live \ {b}
    /\ trace' = Append(trace,
           [op |-> "dealloc", layout |-> b.layout, ptr |-> b.ptr])
    /\ FSBFrame

FSBNext ==
    \/ \E layout \in FSBRequests : FSBAlloc(layout)
    \/ \E b \in live : FSBDealloc(b)

SpecFSB == FSBInit /\ [][FSBNext]_vars

\* The trace starts with two allocations of 8 bytes (align 8), both freed in
\* either order, and then an allocation of 256 bytes.
BothFreedScenario ==
    /\ Len(trace) >= 5
    /\ trace[1].op = "alloc" /\ trace[1].layout = Layout(8, 8)
    /\ trace[2].op = "alloc" /\ trace[2].layout = Layout(8, 8)
    /\ trace[3].op = "dealloc" /\ trace[4].op = "dealloc"
    /\ {trace[3].ptr, trace[4].ptr} = {trace[1].ptr, trace[2].ptr}
    /\ trace[5].op = "alloc" /\ trace[5].layout = Layout(256, 8)

\* C9: with arena [0x1000, 0x1100), after two allocations of 8 bytes (align 8)
\* that are both freed, the allocation of 256 bytes returns null: the two
\* blocks sit in the bucket of the 8-byte class and no region of the fallback
\* free list can host 256 bytes aligned to 256.
C9_FixedSizeBlockOOM ==
    (arena = Arena(4096, 256) /\ BothFreedScenario) =>
        /\ trace[5].ptr = NullPtr
        /\ Len(trace) = 5 =>
               /\ {list_heads[0][i] : i \in 1..Len(list_heads[0])}
                     = {trace[1].ptr, trace[2].ptr}
               /\ \A i \in 1..Len(free) :
                      ~alloc_from_region(free[i], 256, 256).ok

\* C9's case: the five calls of the scenario have been made, the first two
\* having returned two different blocks.
C9_Witness ==
    /\ arena = Arena(4096, 256)
    /\ BothFreedScenario
    /\ trace[1].ptr # NullPtr /\ trace[2].ptr # NullPtr
    /\ trace[1].ptr # trace[2].ptr


\* The step appends a call of the given kind to the trace.
CallStep(op) ==
    /\ Len(trace') = Len(trace) + 1
    /\ trace'[Len(trace')].op = op

\* Index in the trace of the last call routed to class k before call j
\* (0: none).
LastOfClass(k, j) ==
    LET S == {i \in 1..(j - 1) : list_index(trace[i].layout) = k}
    IN  IF S = {} THEN 0 ELSE CHOOSE i \in S : \A h \in S : h <= i

\* C11: an allocate routed to a class whose bucket is not empty returns the
\* bucket's head, which is the block most recently deallocated into that
\* class when the class's last call was a deallocate, pops it and leaves the
\* fallback free list and the other buckets as they are; the fallback free
\* list can change in an allocate of a class only when its bucket is empty.
C11_BucketReuse ==
    [][CallStep("alloc") =>
        LET call == trace'[Len(trace')]
            k == list_index(call.layout)
            last == LastOfClass(k, Len(trace'))
        IN  k # NoIndex =>
              /\ list_heads[k] # <<>> =>
                    /\ call.ptr = Head(list_heads[k])
                    /\ list_heads' = [list_heads EXCEPT ![k] = Tail(list_heads[k])]
                    /\ free' = free
              /\ (last # 0 /\ trace[last].op = "dealloc") =>
                    /\ call.ptr = trace[last].ptr
                    /\ free' = free
              /\ free' # free => list_heads[k] = <<>>
    ]_vars

\* C11's case: a block of the 16-byte class was freed, a block of another
\* class was then allocated from the fallback, and the request of size 10,
\* align 4 was repeated and got the freed block back.
C11_Witness ==
    /\ Len(trace) >= 4
    /\ \E i, j, h \in 1..Len(trace) :
           /\ i < h /\ h < j
           /\ trace[i].op = "dealloc" /\ trace[i].layout = Layout(10, 4)
           /\ trace[h].op = "alloc" /\ trace[h].layout = Layout(8, 8)
           /\ trace[h].ptr # NullPtr
           /\ trace[j].op = "alloc" /\ trace[j].layout = Layout(10, 4)
           /\ trace[j].ptr = trace[i].ptr


TwoFreedScenario ==
    /\ arena.size = 256
    /\ Len(trace) >= 4
    /\ \A i \in 1..2 : trace[i].op = "alloc" /\ trace[i].layout = Layout(8, 8)
    /\ \A i \in 3..4 : trace[i].op = "dealloc"
    /\ {trace[3].ptr, trace[4].ptr} = {trace[1].ptr, trace[2].ptr}

\* C13: whenever a deallocate has brought the live count to zero the cursor
\* is at heap_start, whatever the order of the frees; after two 8-byte blocks
\* on [0x1000, 0x1100) were both freed an allocate of 256 bytes gets the
\* whole arena.
C13_IdleReset ==
    /\ (trace # <<>> /\ LastCall.op = "dealloc" /\ live = {}) =>
          /\ bump.next = bump.heap_start
          /\ bump.allocations = 0
    /\ (TwoFreedScenario /\ Len(trace) = 5 /\ LastCall.op = "alloc"
            /\ LastCall.layout = Layout(256, 8)) =>
          LastCall.ptr = arena.start

\* C13's case: the two blocks were freed in the order they were allocated, so
\* the first free could not retract, and the allocate of 256 bytes succeeded.
C13_Witness ==
    /\ TwoFreedScenario
    /\ trace[3].ptr = trace[1].ptr
    /\ trace[1].ptr # trace[2].ptr
    /\ Len(trace) = 5
    /\ trace[5] = [op |-> "alloc", layout |-> Layout(256, 8), ptr |-> arena.start]

\* C18: the cursor goes down only in a deallocate, and then only to the start
\* of a freed block that ended at the cursor or to heap_start when the live
\* count reaches zero; an allocate that succeeds moves it strictly up, one
\* that fails leaves it.
C18_CursorMonotone ==
    [][/\ bump'.next < bump.next =>
            /\ CallStep("dealloc")
            /\ LET call == trace'[Len(trace')]
               IN  \/ /\ call.ptr + call.layout.size = bump.next
                      /\ bump'.next = call.ptr
                   \/ /\ bump'.allocations = 0
                      /\ bump'.next = bump.heap_start
       /\ CallStep("alloc") =>
            LET call == trace'[Len(trace')]
            IN  IF call.ptr # NullPtr
                THEN /\ bump'.next > bump.next
                     /\ bump'.next = call.ptr + call.layout.size
                ELSE bump' = bump
    ]_vars

\* C18's case: with two blocks live below the cursor a block in the middle
\* was freed and the cursor stayed, then the block at the cursor was freed and
\* the cursor went back to its start, above heap_start.
C18_Witness ==
    /\ Len(trace) = 5
    /\ \A i \in 1..3 : trace[i].op = "alloc" /\ trace[i].ptr # NullPtr
    /\ trace[4].op = "dealloc" /\ trace[4].ptr = trace[2].ptr
    /\ trace[5].op = "dealloc" /\ trace[5].ptr = trace[3].ptr
    /\ bump.next = trace[3].ptr
    /\ bump.next > bump.heap_start
    /\ bump.allocations = 1


\* ------------------------------------------------------- class isolation
\* The bytes a call's block covers: a block of the class for a routed layout,
\* the padded size for one that goes to the fallback allocator.
CallSpan(call) ==
    LET k == list_index(call.layout)
    IN  [addr |-> call.ptr,
         size |-> IF k # NoIndex THEN BLOCK_SIZES[k + 1]
                  ELSE size_align(call.layout).size]

Overlap(a, b) == a.addr < b.addr + b.size /\ b.addr < a.addr + a.size

\* The addresses held by a bucket.
BucketSet(k) == {list_heads[k][i] : i \in 1..Len(list_heads[k])}

\* C19: a block freed into the bucket of class K stays a class-K block: it is
\* in bucket K once and in no other bucket, or live under a class-K layout;
\* no free region of the fallback allocator overlaps it; every later
\* allocation that overlaps it was routed to K and returned exactly it.
C19_ClassIsolation ==
    \A i \in 1..Len(trace) :
        LET k == list_index(trace[i].layout)
            B == CallSpan(trace[i])
        IN  (trace[i].op = "dealloc" /\ k # NoIndex) =>
              /\ \/ /\ trace[i].ptr \in BucketSet(k)
                    /\ \A h \in 0..8 : h # k => trace[i].ptr \notin BucketSet(h)
                    /\ Cardinality({n \in 1..Len(list_heads[k]) :
                                       list_heads[k][n] = trace[i].ptr}) = 1
                    /\ \A b \in live : ~Overlap(B, CallSpan(b))
                 \/ /\ \A h \in 0..8 : trace[i].ptr \notin BucketSet(h)
                    /\ \E b \in live : /\ b.ptr = trace[i].ptr
                                       /\ list_index(b.layout) = k
              /\ \A n \in 1..Len(free) : ~Overlap(B, free[n])
              /\ \A j \in (i + 1)..Len(trace) :
                    (/\ trace[j].op = "alloc"
                     /\ trace[j].ptr # NullPtr
                     /\ Overlap(B, CallSpan(trace[j]))) =>
                        /\ list_index(trace[j].layout) = k
                        /\ trace[j].ptr = trace[i].ptr

\* C19's case: a block of the 8-byte class was freed, an allocate of the
\* 16-byte class and one of a size above every class then got other memory,
\* and the next allocate of the 8-byte class got the freed block.
C19_Witness ==
    /\ Len(trace) = 5
    /\ trace[1].op = "alloc" /\ trace[1].layout = Layout(8, 8)
    /\ trace[2].op = "dealloc" /\ trace[2].ptr = trace[1].ptr
    /\ trace[3].op = "alloc" /\ trace[3].layout = Layout(10, 4)
    /\ trace[3].ptr \notin {NullPtr, trace[1].ptr}
    /\ trace[4].op = "alloc" /\ trace[4].layout = Layout(2056, 8)
    /\ trace[4].ptr \notin {NullPtr, trace[1].ptr}
    /\ trace[5].op = "alloc" /\ trace[5].layout = Layout(8, 8)
    /\ trace[5].ptr = trace[1].ptr


\* ------------------------------------------------- free-list reuse and OOM
\* C16: in the state a deallocate of a block leaves, the request that had
\* returned the block succeeds again, without a panic, whatever else is live;
\* so does every repetition of an allocate right after the deallocate of its
\* block.
C16_MemoryReuse ==
    [][CallStep("dealloc") =>
        LET call == trace'[Len(trace')]
            again == ll_alloc(free', call.layout)
        IN  /\ ~panicked'
            /\ again.ptr # NullPtr
            /\ ~again.panic
    ]_vars

\* C16's case: with a long-lived block live from the first call on, a block
\* of 64 bytes was allocated, freed, allocated again and freed again.
C16_Witness ==
    /\ Len(trace) = 5
    /\ trace[1].op = "alloc" /\ trace[1].layout = Layout(8, 16)
    /\ Block(trace[1].ptr, trace[1].layout) \in live
    /\ \A i \in {2, 4} : /\ trace[i].op = "alloc"
                         /\ trace[i].layout = Layout(64, 8)
                         /\ trace[i].ptr # NullPtr
    /\ \A i \in {3, 5} : /\ trace[i].op = "dealloc"
                         /\ trace[i].ptr = trace[i - 1].ptr

\* No region of the list passes alloc_from_region for the padded layout.
NoRegionFits(list, layout) ==
    LET sa == size_align(layout)
    IN  \A n \in 1..Len(list) : ~alloc_from_region(list[n], sa.size, sa.align).ok

\* C17: an allocate returns null exactly when no region of the free list
\* passes alloc_from_region for the padded size and alignment, and then it
\* returns without a panic and leaves the free list and the live blocks as
\* they were.
C17_FreeListOOM ==
    [][CallStep("alloc") =>
        LET call == trace'[Len(trace')]
        IN  /\ (call.ptr = NullPtr) <=> NoRegionFits(free, call.layout)
            /\ call.ptr = NullPtr =>
                  /\ ~panicked'
                  /\ free' = free
                  /\ live' = live
    ]_vars

\* C17's case: with a block live an allocate returned null although the free
\* list still held regions, none of which could host the request.
C17_Witness ==
    /\ Len(trace) >= 2
    /\ LastCall.op = "alloc"
    /\ LastCall.ptr = NullPtr
    /\ ~panicked
    /\ live # {}
    /\ free # <<>>
    /\ NoRegionFits(free, LastCall.layout)


\* ------------------------------------------ alloc_from_region on one region
\* The largest first region drawn, in bytes.
MaxRegionSize == 80

\* A free list of two regions: the first of any size init or add_free_region
\* accepts, the second big enough for every request drawn.
SliverLists ==
    {<<Region(addr, size), Region(8192, 128)>> :
        addr \in {4096, 4104}, size \in NodeSize..MaxRegionSize}

\* The padded (size, align) pairs size_align can produce.
SliverRequests ==
    {r \in [size : {16, 24, 32, 48}, align : {8, 16}] : r.size % r.align = 0}

NoResult == [first |-> [ok |-> FALSE, start |-> 0],
             found |-> [found |-> FALSE, region |-> Region(0, 0),
                        alloc_start |-> 0, list |-> <<>>]]

SliverInit ==
    /\ arg \in [list : SliverLists, request : SliverRequests]
    /\ free = arg.list
    /\ ret = NoResult
    /\ pc = "start"
    /\ arena = Arena(0, 0)
    /\ live = {}
    /\ trace = <<>>
    /\ panicked = FALSE
    /\ bump = BumpIdle
    /\ list_heads = NoBuckets
    /\ lock = NoCaller
    /\ local = <<>>

\* One call of alloc_from_region on the first region and one of find_region
\* on the list, for the request drawn.
SliverCall ==
    /\ pc = "start"
    /\ LET f == find_region(free, arg.request.size, arg.request.align)
       IN  /\ ret' = [first |-> alloc_from_region(free[1], arg.request.size,
                                                  arg.request.align),
                      found |-> f]
           /\ free' = f.list
    /\ pc' = "done"
    /\ UNCHANGED <<arg, arena, live, trace, panicked, bump, list_heads, lock,
                   local>>

SliverNext == SliverCall

SpecSliver == SliverInit /\ [][SliverNext]_vars

\* The smallest multiple of align that is >= addr, in unbounded arithmetic.
RoundUp(addr, align) == ((addr + align - 1) \div align) * align

\* What a region has left behind a block of the given size placed at its
\* first aligned address (negative: the block does not fit).
Leftover(region, size, align) ==
    region.addr + region.size - (RoundUp(region.addr, align) + size)

\* C15: alloc_from_region rejects a region whose leftover behind the aligned
\* block is positive and below the node size of 16 bytes, and find_region
\* then passes over it; it accepts a region whose leftover is 0 or at least
\* 16, and find_region unlinks that region.
C15_SliverRejection ==
    pc = "done" =>
        LET region == arg.list[1]
            left == Leftover(region, arg.request.size, arg.request.align)
        IN  /\ (left > 0 /\ left < 16) =>
                  /\ ~ret.first.ok
                  /\ ret.found.found
                  /\ ret.found.region = arg.list[2]
                  /\ free = <<region>>
            /\ (left = 0 \/ left >= 16) =>
                  /\ ret.first.ok
                  /\ ret.first.start = RoundUp(region.addr, arg.request.align)
                  /\ ret.found.found
                  /\ ret.found.region = region
                  /\ ret.found.alloc_start = ret.first.start
                  /\ free = <<arg.list[2]>>

\* C15's case: the first region is one byte short of the requested size plus
\* the node size, so the payload fits and 15 bytes are left: the scan has
\* passed over it and taken the second region.
C15_Witness ==
    /\ pc = "done"
    /\ arg.list[1].addr = 4096
    /\ arg.list[1].size = arg.request.size + NodeSize - 1
    /\ ~ret.first.ok
    /\ ret.found.region = arg.list[2]


\* --------------------------------------- arenas at the top of the addresses
\* addr + align - 1 does not fit a word: align_up wraps in a build without
\* overflow checks and panics in a build with them.
align_up_overflows(addr, align) == addr + align - 1 > MaxAddr

\* GlobalAlloc::alloc for Locked<BumpAllocator> in a build with overflow
\* checks: the addition inside align_up panics before anything is written.
bump_alloc_checked(b, layout) ==
    IF align_up_overflows(b.next, layout.align)
    THEN [ptr |-> NullPtr, bump |-> b, panic |-> TRUE]
    ELSE [ptr |-> bump_alloc(b, layout).ptr,
          bump |-> bump_alloc(b, layout).bump, panic |-> FALSE]

\* GlobalAlloc::alloc for Locked<LinkedListAllocator> in a build with
\* overflow checks: find_region panics at the first region it scans whose
\* start does not survive align_up.
ll_alloc_checked(list, layout) ==
    LET sa == size_align(layout)
        i == find_index(list, sa.size, sa.align, 1)
        scanned == IF i = 0 THEN 1..Len(list) ELSE 1..i
    IN  IF \E n \in scanned : align_up_overflows(list[n].addr, sa.align)
        THEN [ptr |-> NullPtr, list |-> list, panic |-> TRUE]
        ELSE ll_alloc(list, layout)

\* An arena whose last byte is 8 below the largest address, handed to both
\* backends' init.
HighArenas == {Arena(WordMod - 256, 248)}
OverflowRequests == {Layout(8, 8), Layout(512, 8), Layout(64, 4096)}

\* The build is with or without overflow checks; both backends have run init
\* on the same high arena.
OverflowInit ==
    /\ arena \in HighArenas
    /\ local \in [overflow_checks : BOOLEAN]
    /\ bump = bump_init(arena.start, arena.size)
    /\ free = ll_init(arena.start, arena.size)
    /\ live = {}
    /\ trace = <<>>
    /\ panicked = FALSE
    /\ list_heads = NoBuckets
    /\ lock = NoCaller
    /\ pc = <<>>
    /\ arg = 0
    /\ ret = 0

OverflowFrame == UNCHANGED <<arena, live, list_heads, lock, pc, local, arg, ret>>

\* One call of GlobalAlloc::alloc on Locked<BumpAllocator>.
OverflowBumpAlloc(layout) ==
    /\ ~panicked
    /\ Len(trace) < MaxOps
    /\ LET r == IF local.overflow_checks THEN bump_alloc_checked(bump, layout)
                ELSE [ptr |-> bump_alloc(bump, layout).ptr,
                      bump |-> bump_alloc(bump, layout).bump, panic |-> FALSE]
       IN  /\ bump' = r.bump
           /\ panicked' = r.panic
           /\ trace' = Append(trace,
                  [op |-> "bump_alloc", layout |-> layout, ptr |-> r.ptr])
    /\ free' = free
    /\ OverflowFrame

\* One call of GlobalAlloc::alloc on Locked<LinkedListAllocator>.
OverflowLLAlloc(layout) ==
    /\ ~panicked
    /\ Len(trace) < MaxOps
    /\ LET r == IF local.overflow_checks THEN ll_alloc_checked(free, layout)
                ELSE ll_alloc(free, layout)
       IN  /\ free' = r.list
           /\ panicked' = r.panic
           /\ trace' = Append(trace,
                  [op |-> "ll_alloc", layout |-> layout, ptr |-> r.ptr])
    /\ bump' = bump
    /\ OverflowFrame

OverflowNext ==
    \/ \E layout \in OverflowRequests : OverflowBumpAlloc(layout)
    \/ \E layout \in OverflowRequests : OverflowLLAlloc(layout)

SpecOverflow == OverflowInit /\ [][OverflowNext]_vars

\* The block of the given size at the first aligned address from addr on
\* would end above the largest address.
PastTop(addr, size, align) == RoundUp(addr, align) + size > MaxAddr

InArena(ptr, size) ==
    arena.start <= ptr /\ ptr + size <= arena.start + arena.size

\* C14: an allocate whose aligned start plus size is above the largest
\* address returns null without a panic and leaves the allocator as it was,
\* in the bump backend (start: the cursor) and in the free-list backend
\* (start: every region's); no allocate returns an address outside the arena.
C14_OverflowSafety ==
    [][/\ CallStep("bump_alloc") =>
            LET call == trace'[Len(trace')]
            IN  /\ PastTop(bump.next, call.layout.size, call.layout.align) =>
                      /\ call.ptr = NullPtr
                      /\ ~panicked'
                      /\ bump' = bump
                /\ call.ptr # NullPtr => InArena(call.ptr, call.layout.size)
       /\ CallStep("ll_alloc") =>
            LET call == trace'[Len(trace')]
                sa == size_align(call.layout)
            IN  /\ (\A n \in 1..Len(free) :
                        PastTop(free[n].addr, sa.size, sa.align)) =>
                      /\ call.ptr = NullPtr
                      /\ ~panicked'
                      /\ free' = free
                /\ call.ptr # NullPtr => InArena(call.ptr, sa.size)
    ]_vars


\* ------------------------------------------- termination under fair steps
\* The arena and the requests of the runs checked for termination.
FairRequests == {Layout(8, 8), Layout(24, 8)}

FairInit ==
    /\ arena = Arena(4096, 48)
    /\ free = ll_init(arena.start, arena.size)
    /\ live = {}
    /\ trace = <<>>
    /\ panicked = FALSE
    /\ bump = BumpIdle
    /\ list_heads = NoBuckets
    /\ lock = NoCaller
    /\ pc = [p \in Callers |-> "idle"]
    /\ local = [p \in Callers |-> NoCall]
    /\ arg = 0
    /\ ret = 0

\* A caller enters alloc: size_align has run, lock() has not returned yet.
AllocCall(p, layout) ==
    /\ ~panicked
    /\ pc[p] = "idle"
    /\ Cardinality(live) < MaxLive
    /\ pc' = [pc EXCEPT ![p] = "alloc_lock"]
    /\ local' = [local EXCEPT ![p] = Block(NullPtr, layout)]
    /\ UNCHANGED <<free, live, panicked, lock>>
    /\ ConcFrame

\* alloc: the spin of self.lock() wins the mutex.
AllocAcquire(p) ==
    /\ ~panicked
    /\ pc[p] = "alloc_lock"
    /\ lock = NoCaller
    /\ lock' = p
    /\ pc' = [pc EXCEPT ![p] = "alloc"]
    /\ UNCHANGED <<free, live, panicked, local>>
    /\ ConcFrame

\* A caller enters dealloc with a block it owns.
DeallocCall(p, b) ==
    /\ ~panicked
    /\ pc[p] = "idle"
    /\ pc' = [pc EXCEPT ![p] = "dealloc_lock"]
    /\ local' = [local EXCEPT ![p] = b]
    /\ live' = live \ {b}
    /\ UNCHANGED <<free, panicked, lock>>
    /\ ConcFrame

\* dealloc: the spin of the first self.lock() wins the mutex.
DeallocAcquire(p) ==
    /\ ~panicked
    /\ pc[p] = "dealloc_lock"
    /\ lock = NoCaller
    /\ lock' = p
    /\ pc' = [pc EXCEPT ![p] = "dealloc_add"]
    /\ UNCHANGED <<free, live, panicked, local>>
    /\ ConcFrame

FairNext ==
    \E p \in Callers :
        \/ \E layout \in FairRequests : AllocCall(p, layout)
        \/ AllocAcquire(p)
        \/ AllocBody(p)
        \/ \E b \in live : DeallocCall(p, b)
        \/ DeallocAcquire(p)
        \/ DeallocAdd(p)
        \/ DeallocLockMerge(p)
        \/ DeallocMerge(p)

\* Where a caller stands after the step it is about to take.
AfterStep(at) ==
    CASE at = "alloc_lock" -> "alloc"
      [] at = "alloc" -> "idle"
      [] at = "dealloc_lock" -> "dealloc_add"
      [] at = "dealloc_add" -> "dealloc_between"
      [] at = "dealloc_between" -> "dealloc_merge"
      [] at = "dealloc_merge" -> "idle"
      [] OTHER -> at

\* The step of a caller that holds the lock: AllocBody, DeallocAdd or
\* DeallocMerge, told by the move of its program counter.
Runs(p) ==
    /\ ~panicked
    /\ pc[p] \in {"alloc", "dealloc_add", "dealloc_merge"}
    /\ pc' = [pc EXCEPT ![p] = AfterStep(pc[p])]

\* The step of a caller whose lock() returns: AllocAcquire, DeallocAcquire
\* or DeallocLockMerge.
Acquires(p) ==
    /\ ~panicked
    /\ pc[p] \in {"alloc_lock", "dealloc_lock", "dealloc_between"}
    /\ lock = NoCaller
    /\ pc' = [pc EXCEPT ![p] = AfterStep(pc[p])]

\* A caller that runs keeps running (weak fairness on the steps under the
\* lock); a caller that spins on a mutex that is free again and again gets it
\* (strong fairness on the three lock() calls).  Nothing obliges a caller to
\* make a call.
Fairness ==
    \A p \in Callers : WF_pc(Runs(p)) /\ SF_pc(Acquires(p))

SpecFair == FairInit /\ [][FairNext]_vars /\ Fairness

\* The nodes of the free list have strictly increasing addresses: the list
\* is finite and no node is reached twice.
Acyclic(list) ==
    \A i, j \in 1..Len(list) : i < j => list[i].addr < list[j].addr

C21_CoalescedAfterFree ==
    (trace # <<>> /\ LastCall.op = "dealloc" /\ ~panicked) => NoAdjacent(free)

\* C22: whenever calls have been made and every block handed out has been
\* given back, the free list is the one region that covers the arena.
C22_FullReassembly ==
    (trace # <<>> /\ live = {} /\ ~panicked) => free = WholeArena

\* The maximal runs of free bytes of an address-ordered list: regions that
\* touch are joined, however many in a row.
RECURSIVE MaximalRuns(_)
MaximalRuns(list) ==
    IF Len(list) <= 1 THEN list
    ELSE IF end_addr(list[1]) = start_addr(list[2])
    THEN MaximalRuns(<<Region(start_addr(list[1]),
                              list[1].size + list[2].size)>>
                     \o SubSeq(list, 3, Len(list)))
    ELSE <<list[1]>> \o MaximalRuns(Tail(list))

\* The run can host the padded request at its first aligned address with a
\* leftover of 0 or at least the node size.
Hosts(run, size, align) ==
    \/ Leftover(run, size, align) = 0
    \/ Leftover(run, size, align) >= NodeSize

\* C23: an allocate returns null only if no maximal run of free bytes of the
\* free list can host the padded request.
C23_Completeness ==
    [][CallStep("alloc") =>
        LET call == trace'[Len(trace')]
            sa == size_align(call.layout)
            runs == MaximalRuns(free)
        IN  call.ptr = NullPtr =>
                \A n \in 1..Len(runs) : ~Hosts(runs[n], sa.size, sa.align)
    ]_vars


\* ------------------------------------------------ add_free_region on its own
\* The spans of whole cells of the MergeCells-cell arena that overlap no
\* region of the list: what a caller may hand to add_free_region.
FreeSpans(list) ==
    {s \in [addr : {4096 + NodeSize * (i - 1) : i \in 1..MergeCells},
            size : {NodeSize * n : n \in 1..MergeCells}] :
        /\ s.addr + s.size <= 4096 + NodeSize * MergeCells
        /\ \A i \in 1..Len(list) :
               Disjoint(s.addr, s.addr + s.size,
                        start_addr(list[i]), end_addr(list[i]))}

InsertInit ==
    /\ arg \in {[list |-> l, span |-> s] : l \in OrderedLists, s \in
                   UNION {FreeSpans(m) : m \in OrderedLists}}
    /\ arg.span \in FreeSpans(arg.list)
    /\ free = arg.list
    /\ ret = <<>>
    /\ pc = "start"
    /\ arena = Arena(4096, NodeSize * MergeCells)
    /\ live = {}
    /\ trace = <<>>
    /\ panicked = FALSE
    /\ bump = BumpIdle
    /\ list_heads = NoBuckets
    /\ lock = NoCaller
    /\ local = <<>>

\* One call of add_free_region on the list and the span drawn.
InsertCall ==
    /\ pc = "start"
    /\ add_free_region_asserts(arg.span.addr, arg.span.size)
    /\ free' = add_free_region(free, arg.span.addr, arg.span.size)
    /\ ret' = free'
    /\ pc' = "done"
    /\ UNCHANGED <<arg, arena, live, trace, panicked, bump, list_heads, lock,
                   local>>

InsertNext == InsertCall

SpecInsert == InsertInit /\ [][InsertNext]_vars

\* The number of regions of the list that start at or below addr: the new
\* node belongs right behind them.
StartsUpTo(list, addr) ==
    Cardinality({i \in 1..Len(list) : start_addr(list[i]) <= addr})

AddressOrdered(list) ==
    \A i \in 1..(Len(list) - 1) : start_addr(list[i]) < start_addr(list[i + 1])

\* C24: add_free_region puts the new region right before the first region
\* whose start exceeds addr, at the tail if there is none; the regions that
\* were there keep their start, size and order, and the list stays ordered.
C24_OrderedInsert ==
    pc = "done" =>
        LET k == StartsUpTo(arg.list, arg.span.addr)
        IN  /\ Len(ret) = Len(arg.list) + 1
            /\ ret[k + 1] = Region(arg.span.addr, arg.span.size)
            /\ \A i \in 1..k : ret[i] = arg.list[i]
            /\ \A i \in (k + 1)..Len(arg.list) : ret[i + 1] = arg.list[i]
            /\ k < Len(arg.list) => start_addr(arg.list[k + 1]) > arg.span.addr
            /\ AddressOrdered(ret)

\* C24's case: the span went between two regions of a list.
C24_Witness ==
    /\ pc = "done"
    /\ Len(arg.list) >= 2
    /\ \E k \in 2..Len(arg.list) :
           /\ ret[k].addr = arg.span.addr
           /\ ret[k - 1] = arg.list[k - 1]
           /\ ret[k + 1] = arg.list[k]

\* --------------------------------------------------- find_region on its own
FindRequests == [size : {16, 32, 48}, align : {8, 16, 32}]

FindInit ==
    /\ arg \in [list : OrderedLists, request : FindRequests]
    /\ free = arg.list
    /\ ret = NoResult.found
    /\ pc = "start"
    /\ arena = Arena(4096, NodeSize * MergeCells)
    /\ live = {}
    /\ trace = <<>>
    /\ panicked = FALSE
    /\ bump = BumpIdle
    /\ list_heads = NoBuckets
    /\ lock = NoCaller
    /\ local = <<>>

\* One call of find_region on the list and the request drawn.
FindCall ==
    /\ pc = "start"
    /\ ret' = find_region(free, arg.request.size, arg.request.align)
    /\ free' = ret'.list
    /\ pc' = "done"
    /\ UNCHANGED <<arg, arena, live, trace, panicked, bump, list_heads, lock,
                   local>>

FindNext == FindCall

SpecFind == FindInit /\ [][FindNext]_vars

\* The indexes of the regions alloc_from_region accepts for the request.
Fitting(list, request) ==
    {i \in 1..Len(list) :
        alloc_from_region(list[i], request.size, request.align).ok}

\* C25: find_region returns the lowest-addressed region alloc_from_region
\* accepts, with its aligned start, and unlinks that region only; when no
\* region is accepted it returns none and the list is as it was.
C25_FirstFit ==
    pc = "done" =>
        LET S == Fitting(arg.list, arg.request)
        IN  IF S = {}
            THEN ~ret.found /\ free = arg.list
            ELSE LET m == CHOOSE i \in S : \A j \in S : i <= j
                 IN  /\ ret.found
                     /\ ret.region = arg.list[m]
                     /\ \A j \in 1..Len(arg.list) : j # m =>
                            start_addr(arg.list[m]) # start_addr(arg.list[j])
                     /\ \A j \in S : start_addr(arg.list[m]) <= start_addr(arg.list[j])
                     /\ ret.alloc_start =
                            RoundUp(start_addr(arg.list[m]), arg.request.align)
                     /\ Len(free) = Len(arg.list) - 1
                     /\ \A j \in 1..(m - 1) : free[j] = arg.list[j]
                     /\ \A j \in m..Len(free) : free[j] = arg.list[j + 1]

\* C25's case: the first region was refused, a later one taken, and a region
\* behind the one taken would have fitted too.
C25_Witness ==
    /\ pc = "done"
    /\ ret.found
    /\ Len(arg.list) >= 3
    /\ ret.region = arg.list[2]
    /\ 3 \in Fitting(arg.list, arg.request)


\* --------------------------------------------------- free-list node validity
\* C26: on an arena with a node-aligned start and a size that is a multiple
\* of the node alignment and at least the node size, no assertion of
\* add_free_region fires in init, allocate or deallocate, and every region of
\* the free list starts at a multiple of the node alignment and has at least
\* the node size.
C26_NodeValidity ==
    /\ ~panicked
    /\ \A i \in 1..Len(free) :
           /\ add_free_region_asserts(start_addr(free[i]), free[i].size)
           /\ start_addr(free[i]) % NodeAlign = 0
           /\ free[i].size >= NodeSize

\* C26's case: a freed block of 24 bytes is on the list and a later request
\* of 16 padded bytes, which would have left 8 bytes of it, was served behind
\* it; the leftover of that allocate and the freed span were both inserted.
C26_Witness ==
    /\ Len(trace) >= 4
    /\ LastCall.op = "alloc"
    /\ LastCall.layout = Layout(8, 8)
    /\ Len(free) >= 2
    /\ free[1].size = 24
    /\ LastCall.ptr > start_addr(free[1])
    /\ \E i \in 1..Len(trace) : trace[i].op = "dealloc"


\* --------------------------------------------------- bump allocate and free
\* C27: with a the cursor rounded up to the alignment, a bump allocate with
\* a + size <= heap_end returns a, sets the cursor to a + size and adds one to
\* the live count; any other returns null, without a panic, and leaves cursor
\* and live count as they were.
C27_BumpAllocate ==
    [][CallStep("bump_alloc") =>
        LET call == trace'[Len(trace')]
            a == RoundUp(bump.next, call.layout.align)
        IN  /\ ~panicked'
            /\ IF a + call.layout.size <= bump.heap_end
               THEN /\ call.ptr = a
                    /\ bump' = [bump EXCEPT !.next = a + call.layout.size,
                                            !.allocations = bump.allocations + 1]
               ELSE /\ call.ptr = NullPtr
                    /\ bump' = bump
    ]_vars

\* C28: a deallocate of a block that does not end at the cursor, with a block
\* still live afterwards, takes one off the live count and changes nothing
\* else; an allocate never returns an address below the cursor, so the bytes
\* of that block stay unused until the cursor comes back to them.
C28_InteriorFree ==
    [][/\ CallStep("dealloc") =>
            LET call == trace'[Len(trace')]
            IN  (call.ptr + call.layout.size # bump.next /\ live' # {}) =>
                    bump' = [bump EXCEPT !.allocations = bump.allocations - 1]
       /\ CallStep("alloc") =>
            LET call == trace'[Len(trace')]
            IN  call.ptr # NullPtr => call.ptr >= bump.next
    ]_vars

\* C28's case: the first of two blocks was freed with the second live, and
\* the allocate that followed got memory behind the second block.
C28_Witness ==
    /\ Len(trace) = 4
    /\ trace[1].op = "alloc" /\ trace[1].ptr # NullPtr
    /\ trace[2].op = "alloc" /\ trace[2].ptr # NullPtr
    /\ trace[3].op = "dealloc" /\ trace[3].ptr = trace[1].ptr
    /\ trace[4].op = "alloc" /\ trace[4].layout = trace[1].layout
    /\ trace[4].ptr >= trace[2].ptr + trace[2].layout.size
    /\ bump.allocations = 2

\* C29: heap_start <= cursor <= heap_end, the live count is the number of
\* live blocks, and the live blocks are pairwise disjoint and lie inside
\* [heap_start, cursor).
C29_BumpSafety ==
    /\ bump.heap_start <= bump.next
    /\ bump.next <= bump.heap_end
    /\ bump.allocations = Cardinality(live)
    /\ \A b \in live :
           /\ bump.heap_start <= b.ptr
           /\ b.ptr + b.layout.size <= bump.next
           /\ \A c \in live \ {b} :
                  Disjoint(b.ptr, b.ptr + b.layout.size,
                           c.ptr, c.ptr + c.layout.size)

\* C29's case: with a block live the block behind it was freed, the cursor
\* came back, and a new block was handed out at the address of the freed one.
C29_Witness ==
    /\ Len(trace) = 4
    /\ trace[1].op = "alloc" /\ trace[1].ptr # NullPtr
    /\ trace[2].op = "alloc" /\ trace[2].ptr # NullPtr
    /\ trace[3].op = "dealloc" /\ trace[3].ptr = trace[2].ptr
    /\ trace[4].op = "alloc" /\ trace[4].ptr = trace[2].ptr
    /\ trace[4].layout # trace[2].layout
    /\ Cardinality(live) = 2


\* ------------------------------------------------ fixed-size-block allocate
\* C30: an allocate of a layout of no class returns what the fallback
\* allocator returns for that layout; one of class K with a block in bucket K
\* pops and returns the bucket's head and leaves the fallback alone; one of
\* class K with an empty bucket returns what the fallback returns for one
\* block of size K aligned to K, null included, and puts nothing in a bucket.
C30_FixedSizeBlockAllocate ==
    [][CallStep("alloc") =>
        LET call == trace'[Len(trace')]
            k == list_index(call.layout)
            K == BLOCK_SIZES[k + 1]
            asked == IF k = NoIndex THEN call.layout ELSE Layout(K, K)
            r == fallback_allocate(free, asked)
        IN  IF k # NoIndex /\ list_heads[k] # <<>>
            THEN /\ call.ptr = Head(list_heads[k])
                 /\ list_heads' = [list_heads EXCEPT ![k] = Tail(list_heads[k])]
                 /\ free' = free
            ELSE /\ call.ptr = r.ptr
                 /\ free' = r.list
                 /\ list_heads' = list_heads
                 /\ call.ptr # NullPtr => call.ptr % asked.align = 0
                 /\ NoRegionFits(free, asked) => call.ptr = NullPtr /\ free' = free
    ]_vars

\* C30's case: a layout of no class was served by the fallback, then a
\* request of size 10, align 4 found its bucket empty and got a 16-aligned
\* block behind it, which the next such request found in the bucket.
C30_Witness ==
    /\ Len(trace) = 4
    /\ trace[1].op = "alloc" /\ trace[1].layout = Layout(2056, 8)
    /\ trace[1].ptr # NullPtr
    /\ trace[2].op = "alloc" /\ trace[2].layout = Layout(10, 4)
    /\ trace[2].ptr = RoundUp(trace[1].ptr + 2056, 16)
    /\ trace[2].ptr # trace[1].ptr + 2056
    /\ trace[3].op = "dealloc" /\ trace[3].ptr = trace[2].ptr
    /\ trace[4].op = "alloc" /\ trace[4].layout = Layout(10, 4)
    /\ trace[4].ptr = trace[2].ptr
    /\ list_heads[1] = <<>>


\* ----------------------------------------------- fixed-size-block deallocate
\* Some region of the list covers the span.
Covered(list, addr, size) ==
    \E n \in 1..Len(list) :
        start_addr(list[n]) <= addr /\ addr + size <= end_addr(list[n])

\* C31: a deallocate of a layout of class K makes the block the head of
\* bucket K with the former contents behind it and leaves the other buckets
\* and the fallback free list alone; a deallocate of a layout of no class
\* gives the block to the fallback allocator, whose free list then covers it,
\* and changes no bucket.
C31_FixedSizeBlockDeallocate ==
    [][CallStep("dealloc") =>
        LET call == trace'[Len(trace')]
            k == list_index(call.layout)
        IN  /\ ~panicked'
            /\ IF k # NoIndex
               THEN /\ Head(list_heads'[k]) = call.ptr
                    /\ Tail(list_heads'[k]) = list_heads[k]
                    /\ \A h \in 0..(Len(BLOCK_SIZES) - 1) :
                           h # k => list_heads'[h] = list_heads[h]
                    /\ free' = free
               ELSE /\ list_heads' = list_heads
                    /\ free' = fallback_deallocate(free, call.ptr, call.layout).list
                    /\ Covered(free', call.ptr, size_align(call.layout).size)
                    /\ ~Covered(free, call.ptr, NodeSize)
    ]_vars

\* C31's case: two blocks of the 8-byte class were freed one after the other
\* and the bucket holds the second in front of the first.
C31_Witness ==
    /\ Len(trace) = 4
    /\ trace[1].op = "alloc" /\ trace[2].op = "alloc"
    /\ trace[3].op = "dealloc" /\ trace[3].ptr = trace[1].ptr
    /\ trace[4].op = "dealloc" /\ trace[4].ptr = trace[2].ptr
    /\ trace[1].ptr # trace[2].ptr
    /\ list_heads[0] = <<trace[2].ptr, trace[1].ptr>>


\* ----------------------------------------------- fixed-size-block ownership
Classes == 0..(Len(BLOCK_SIZES) - 1)

\* The block of class k at the address.
ClassBlock(ptr, k) == [addr |-> ptr, size |-> BLOCK_SIZES[k + 1]]

\* C32: every address is in the buckets at most once; every block of bucket
\* K was handed out by an allocate of class K; no bucket block overlaps
\* another bucket block, a live block or a region of the fallback free
\* list; no two live blocks overlap.
C32_Ownership ==
    /\ \A k \in Classes : \A n \in 1..Len(list_heads[k]) :
          LET blk == ClassBlock(list_heads[k][n], k)
          IN  /\ \A h \in Classes : \A m \in 1..Len(list_heads[h]) :
                     (h # k \/ m # n) =>
                        /\ list_heads[h][m] # list_heads[k][n]
                        /\ ~Overlap(blk, ClassBlock(list_heads[h][m], h))
              /\ \E i \in 1..Len(trace) :
                     /\ trace[i].op = "alloc"
                     /\ trace[i].ptr = blk.addr
                     /\ list_index(trace[i].layout) = k
              /\ \A b \in live : ~Overlap(blk, CallSpan(b))
              /\ \A i \in 1..Len(free) : ~Overlap(blk, free[i])
    /\ \A b, c \in live : b # c => ~Overlap(CallSpan(b), CallSpan(c))

\* C32's case: after five calls the buckets of the 16-byte and the 256-byte
\* class hold a block each, a block of the 8-byte class is live, and the
\* fallback still has free regions.
C32_Witness ==
    /\ list_heads[1] # <<>>
    /\ list_heads[5] # <<>>
    /\ free # <<>>
    /\ \E b \in live : list_index(b.layout) = 0
    /\ Len(trace) = 5


\* ------------------------------------------------------------------------
\* align_up on its own: one call on an address and a power-of-two alignment.

\* The remainder-based version kept as a comment in fn align_up.
align_up_remainder(addr, align) ==
    LET remainder == addr % align
    IN  IF remainder = 0 THEN addr ELSE addr - remainder + align

\* How far from either end of the address space the addresses drawn lie.
AlignSpan == 24

AlignAddrs == (0..AlignSpan) \cup ((MaxAddr - AlignSpan)..MaxAddr)
                \cup {a \in 4000..4100 : a % 3 = 0}

AlignAligns == {2 ^ n : n \in 0..(WordBits - 1)}

AlignInit ==
    /\ arg \in [addr : AlignAddrs, align : AlignAligns]
    /\ ret = NullPtr
    /\ pc = "start"
    /\ arena = Arena(0, 0)
    /\ free = <<>>
    /\ live = {}
    /\ trace = <<>>
    /\ panicked = FALSE
    /\ bump = BumpIdle
    /\ list_heads = NoBuckets
    /\ lock = NoCaller
    /\ local = <<>>

\* One call of align_up on the pair drawn.
AlignCall ==
    /\ pc = "start"
    /\ ret' = align_up(arg.addr, arg.align)
    /\ pc' = "done"
    /\ UNCHANGED <<arg, arena, free, live, trace, panicked, bump, list_heads,
                   lock, local>>

AlignNext == AlignCall

SpecAlign == AlignInit /\ [][AlignNext]_vars

\* C33: whenever addr + align - 1 fits a word, align_up returns what the
\* remainder-based version returns, and that is the smallest multiple of
\* align that is not below addr.
C33_AlignUpEquivalence ==
    (pc = "done" /\ ~align_up_overflows(arg.addr, arg.align)) =>
        /\ ret = align_up_remainder(arg.addr, arg.align)
        /\ ret % arg.align = 0
        /\ ret >= arg.addr
        /\ \A m \in arg.addr..(ret - 1) : m % arg.align # 0

\* C33's case: an unaligned address near the top of the address space,
\* whose addr + align - 1 still fits a word, has been rounded up.
C33_Witness ==
    /\ pc = "done"
    /\ arg.addr % arg.align # 0
    /\ arg.addr >= MaxAddr - AlignSpan
    /\ ~align_up_overflows(arg.addr, arg.align)
    /\ ret > arg.addr


\* ------------------------------------------------------------------------
\* init_heap: the pages of the heap are mapped one by one, then the allocator
\* is initialised. The page table and the frame allocator belong to the
\* x86_64 crate and the boot information; what they answer is drawn in Init.

\* Size4KiB.
PageSize == 4096
\* The page HEAP_START lies on and the number of pages of HEAP_SIZE, scaled
\* to the word of the model.
HeapStartPage == 1
HeapPages == 3
\* The most usable frames the boot information leaves.
MaxFrames == 6
\* The parent tables (P3, P2, P1) map_to may have to create.
MaxTables == 3

HEAP_START == HeapStartPage * PageSize
HEAP_SIZE == HeapPages * PageSize

NoError == "none"
MapToErrors == {"FrameAllocationFailed", "ParentEntryHugePage", "PageAlreadyMapped"}
HeapFlags == {"PRESENT", "WRITABLE"}

\* Page::containing_address.
containing_address(addr) == addr \div PageSize

\* Page::range_inclusive(heap_start_page, heap_end_page).
page_range ==
    containing_address(HEAP_START)..containing_address(HEAP_START + HEAP_SIZE - 1)

\* A mutant of the ? operator: the error is dropped and the loop goes on.
try_or_continue(err, next) == next

\* The ? operator of init_heap: an error ends the call, anything else goes on.
try_or_return(err, next) == IF err = NoError THEN next ELSE "done"

\* Mapper::map_to(page, frame, flags, frame_allocator): missing parent tables
\* take one frame each, a huge parent entry and a page that is already mapped
\* are refused, and otherwise the page is mapped with the flags given.
map_to(l, flags) ==
    IF l.huge
    THEN [err |-> "ParentEntryHugePage", l |-> l]
    ELSE IF l.tables > l.frames
    THEN [err |-> "FrameAllocationFailed", l |-> [l EXCEPT !.frames = 0]]
    ELSE IF l.page \in l.premapped
    THEN [err |-> "PageAlreadyMapped",
          l |-> [l EXCEPT !.frames = l.frames - l.tables, !.tables = 0]]
    ELSE [err |-> NoError,
          l |-> [l EXCEPT !.frames = l.frames - l.tables, !.tables = 0,
                          !.mapped = l.mapped \cup
                                       {[page |-> l.page, flags |-> flags]}]]

HeapInit ==
    /\ \E frames \in 0..MaxFrames, tables \in 0..MaxTables,
          premapped \in SUBSET page_range, huge \in BOOLEAN :
          local = [page |-> containing_address(HEAP_START), frames |-> frames,
                   tables |-> tables, premapped |-> premapped, huge |-> huge,
                   mapped |-> {}, inits |-> 0]
    /\ pc = "loop"
    /\ ret = NoError
    /\ free = <<>>
    /\ arena = Arena(HEAP_START, HEAP_SIZE)
    /\ live = {}
    /\ trace = <<>>
    /\ panicked = FALSE
    /\ bump = BumpIdle
    /\ list_heads = NoBuckets
    /\ lock = NoCaller
    /\ arg = <<>>

\* frame_allocator.allocate_frame().ok_or(FrameAllocationFailed)? for the
\* next page of the range.
HeapAllocateFrame ==
    /\ pc = "loop"
    /\ local.page \in page_range
    /\ LET err == IF local.frames = 0 THEN "FrameAllocationFailed" ELSE NoError
       IN  /\ pc' = try_or_return(err, "map_to")
           /\ ret' = err
           /\ local' = [local EXCEPT !.frames = Max(local.frames - 1, 0)]
    /\ UNCHANGED <<arena, free, live, trace, panicked, bump, list_heads, lock,
                   arg>>

\* mapper.map_to(page, frame, PRESENT | WRITABLE, frame_allocator)?.flush().
HeapMapTo ==
    /\ pc = "map_to"
    /\ LET r == map_to(local, HeapFlags)
       IN  /\ pc' = try_or_return(r.err, "loop")
           /\ ret' = r.err
           /\ local' = IF pc' = "loop"
                       THEN [r.l EXCEPT !.page = local.page + 1]
                       ELSE r.l
    /\ UNCHANGED <<arena, free, live, trace, panicked, bump, list_heads, lock,
                   arg>>

\* ALLOCATOR.lock().init(HEAP_START, HEAP_SIZE), once the loop is over.
HeapAllocatorInit ==
    /\ pc = "loop"
    /\ local.page \notin page_range
    /\ lock = NoCaller
    /\ free' = add_free_region(free, HEAP_START, HEAP_SIZE)
    /\ local' = [local EXCEPT !.inits = local.inits + 1]
    /\ pc' = "return"
    /\ UNCHANGED <<arena, live, trace, panicked, bump, list_heads, lock, arg,
                   ret>>

\* Ok(()).
HeapReturn ==
    /\ pc = "return"
    /\ ret' = "Ok"
    /\ pc' = "done"
    /\ UNCHANGED <<arena, free, live, trace, panicked, bump, list_heads, lock,
                   arg, local>>

HeapNext == HeapAllocateFrame \/ HeapMapTo \/ HeapAllocatorInit \/ HeapReturn

SpecHeap == HeapInit /\ [][HeapNext]_vars

\* Every page of the heap has been mapped present and writable by this call.
HeapMapped ==
    \A page \in page_range : [page |-> page, flags |-> HeapFlags] \in local.mapped

\* C34: init is called at most once in a call of init_heap, exactly once when
\* it returns Ok, and only in a state where every page of the heap is mapped
\* present and writable; when a frame allocation or a mapping fails the call
\* returns that error, init has not been called and the free list is empty.
C34_InitHeapOrdering ==
    /\ [](/\ local.inits <= 1
          /\ (pc = "done" /\ ret = "Ok") =>
                 /\ local.inits = 1
                 /\ free = <<Region(HEAP_START, HEAP_SIZE)>>
          /\ (pc = "done" /\ ret # "Ok") =>
                 /\ ret \in MapToErrors
                 /\ ret = "FrameAllocationFailed" => local.frames = 0
                 /\ ret = "PageAlreadyMapped" => local.page \in local.premapped
                 /\ ret = "ParentEntryHugePage" => local.huge
                 /\ ~HeapMapped
                 /\ local.inits = 0
                 /\ free = <<>>)
    /\ [][(free' # free \/ local'.inits # local.inits) => HeapMapped]_vars

\* C34's case: the call has returned Ok after creating parent tables and
\* using up the last usable frame, and the allocator holds the heap.
C34_Witness ==
    /\ pc = "done"
    /\ ret = "Ok"
    /\ local.frames = 0
    /\ HeapMapped
    /\ free # <<>>


\* ------------------------------------------------------------------------
\* The task executor: main spawns tasks and calls run, which alternates
\* between run_ready_tasks and sleep_if_idle; interrupt handlers run between
\* two of its steps whenever interrupts are enabled. A task is known by its
\* id; what its future does in a poll (whether it hands its waker to an
\* interrupt source, whether it is Ready) is drawn in the step.
\* `local` holds the Executor (tasks, task_queue, waker_cache), the id popped
\* last (task_id), NEXT_ID (next_id), the ids whose waker an interrupt source
\* holds (registered), the interrupt flag and the halt state of the CPU, and
\* two records of the past: the ids whose poll returned Ready (completed) and
\* the ids popped and skipped (skipped).

\* The tasks main spawns and ArrayQueue::new(capacity).
MaxTasks == 3
QueueCap == 3

NoTask == "none"

\* Executor::new(), with interrupts enabled and the CPU running.
NewExecutor ==
    [tasks |-> {}, task_queue |-> <<>>, waker_cache |-> {}, task_id |-> NoTask,
     next_id |-> 0, registered |-> {}, completed |-> {}, skipped |-> {},
     interrupts |-> TRUE, halted |-> FALSE]

\* ArrayQueue::push fails on a full queue.
is_full(queue) == Len(queue) >= QueueCap

\* A mutant of the Ready arm: the cached waker is kept.
poll_ready_keep_waker(l, task_id) ==
    [l EXCEPT !.tasks = l.tasks \ {task_id},
              !.completed = l.completed \cup {task_id}]

\* Poll::Ready(()) in run_ready_tasks: tasks.remove, waker_cache.remove.
poll_ready(l, task_id) ==
    [l EXCEPT !.tasks = l.tasks \ {task_id},
              !.waker_cache = l.waker_cache \ {task_id},
              !.completed = l.completed \cup {task_id}]

\* A mutant of the second is_empty of sleep_if_idle: the CPU halts whatever
\* the queue holds.
recheck_always_empty(queue) == TRUE

\* The second self.task_queue.is_empty() of sleep_if_idle.
recheck_is_empty(queue) == queue = <<>>

ExecInit ==
    /\ local = NewExecutor
    /\ pc = "main"
    /\ panicked = FALSE
    /\ arena = Arena(0, 0)
    /\ free = <<>>
    /\ live = {}
    /\ trace = <<>>
    /\ bump = BumpIdle
    /\ list_heads = NoBuckets
    /\ lock = NoCaller
    /\ arg = <<>>
    /\ ret = NoTask

ExecFrame ==
    UNCHANGED <<arena, free, live, trace, bump, list_heads, lock, arg, ret>>

\* Executor::spawn(Task::new(..)): the task gets the next id, enters the map
\* and its id is pushed.
Spawn ==
    /\ pc = "main"
    /\ ~panicked
    /\ local.next_id < MaxTasks
    /\ IF local.next_id \in local.tasks \/ is_full(local.task_queue)
       THEN panicked' = TRUE /\ UNCHANGED local
       ELSE /\ local' = [local EXCEPT
                           !.tasks = local.tasks \cup {local.next_id},
                           !.task_queue = Append(local.task_queue, local.next_id),
                           !.next_id = local.next_id + 1]
            /\ UNCHANGED panicked
    /\ UNCHANGED pc
    /\ ExecFrame

\* Executor::run is entered.
Run ==
    /\ pc = "main"
    /\ ~panicked
    /\ pc' = "run_ready_tasks"
    /\ UNCHANGED <<local, panicked>>
    /\ ExecFrame

\* One turn of the while let of run_ready_tasks: pop; an id with no task is
\* skipped; otherwise the waker is taken from the cache or created, and the
\* poll begins. An empty queue ends the loop.
PopTask ==
    /\ pc = "run_ready_tasks"
    /\ ~panicked
    /\ ~local.halted
    /\ IF local.task_queue = <<>>
       THEN pc' = "sleep_if_idle" /\ UNCHANGED local
       ELSE LET task_id == Head(local.task_queue)
                popped == [local EXCEPT !.task_queue = Tail(local.task_queue),
                                        !.task_id = task_id]
            IN  IF task_id \in local.tasks
                THEN /\ local' = [popped EXCEPT
                                    !.waker_cache = popped.waker_cache \cup {task_id}]
                     /\ pc' = "poll"
                ELSE /\ local' = [popped EXCEPT
                                    !.skipped = popped.skipped \cup {task_id}]
                     /\ pc' = "run_ready_tasks"
    /\ UNCHANGED panicked
    /\ ExecFrame

\* Inside task.poll: the future may hand a clone of the waker to an interrupt
\* source.
PollRegister ==
    /\ pc = "poll"
    /\ ~panicked
    /\ \E registers \in BOOLEAN :
          local' = [local EXCEPT !.registered =
                       IF registers THEN local.registered \cup {local.task_id}
                       ELSE local.registered]
    /\ pc' = "poll_return"
    /\ UNCHANGED panicked
    /\ ExecFrame

\* task.poll returns: Ready removes the task and its waker, Pending nothing.
PollReturn ==
    /\ pc = "poll_return"
    /\ ~panicked
    /\ \E ready \in BOOLEAN :
          local' = IF ready THEN poll_ready(local, local.task_id) ELSE local
    /\ pc' = "run_ready_tasks"
    /\ UNCHANGED panicked
    /\ ExecFrame

\* sleep_if_idle: the first is_empty, interrupts enabled.
SleepIfIdle ==
    /\ pc = "sleep_if_idle"
    /\ ~panicked
    /\ pc' = IF local.task_queue = <<>> THEN "disable" ELSE "run_ready_tasks"
    /\ UNCHANGED <<local, panicked>>
    /\ ExecFrame

\* interrupts::disable().
Disable ==
    /\ pc = "disable"
    /\ ~panicked
    /\ local' = [local EXCEPT !.interrupts = FALSE]
    /\ pc' = "recheck"
    /\ UNCHANGED panicked
    /\ ExecFrame

\* The second is_empty: enable_and_hlt() when the queue is still empty,
\* interrupts::enable() otherwise.
Recheck ==
    /\ pc = "recheck"
    /\ ~panicked
    /\ IF recheck_is_empty(local.task_queue)
       THEN /\ local' = [local EXCEPT !.interrupts = TRUE, !.halted = TRUE]
            /\ pc' = "hlt"
       ELSE /\ local' = [local EXCEPT !.interrupts = TRUE]
            /\ pc' = "run_ready_tasks"
    /\ UNCHANGED panicked
    /\ ExecFrame

\* An interrupt whose handler wakes a waker it holds: TaskWaker::wake_task
\* pushes the id; a halted CPU resumes after the handler, sleep_if_idle
\* returns and run loops.
WakeInterrupt ==
    /\ ~panicked
    /\ pc # "main"
    /\ local.interrupts
    /\ \E task_id \in local.registered :
          IF is_full(local.task_queue)
          THEN panicked' = TRUE /\ UNCHANGED <<local, pc>>
          ELSE /\ local' = [local EXCEPT
                              !.registered = local.registered \ {task_id},
                              !.task_queue = Append(local.task_queue, task_id),
                              !.halted = FALSE]
               /\ pc' = IF local.halted THEN "run_ready_tasks" ELSE pc
               /\ UNCHANGED panicked
    /\ ExecFrame

\* An interrupt that wakes nothing (the timer) ends a halt all the same.
TimerInterrupt ==
    /\ ~panicked
    /\ local.interrupts
    /\ local.halted
    /\ local' = [local EXCEPT !.halted = FALSE]
    /\ pc' = "run_ready_tasks"
    /\ UNCHANGED panicked
    /\ ExecFrame

\* The steps of the run loop, from the call of run on.
ExecStep ==
    Run \/ PopTask \/ PollRegister \/ PollReturn \/ SleepIfIdle \/ Disable \/ Recheck

ExecNext ==
    \/ Spawn
    \/ Run
    \/ PopTask
    \/ PollRegister
    \/ PollReturn
    \/ SleepIfIdle
    \/ Disable
    \/ Recheck
    \/ WakeInterrupt
    \/ TimerInterrupt

SpecExec == ExecInit /\ [][ExecNext]_vars

\* The CPU keeps executing main and the run loop while it is not halted;
\* nothing is assumed about interrupts.
SpecExecFair == SpecExec /\ WF_vars(ExecStep)

InQueue(task_id) ==
    \E n \in 1..Len(local.task_queue) : local.task_queue[n] = task_id


\* A step of run_ready_tasks that pops an id.
PopStep == Len(local'.task_queue) < Len(local.task_queue)

\* C35: when a poll returns Ready the task and its cached waker leave the
\* executor; an id of a completed task that is popped is skipped, with no
\* poll and no change to the task map or the waker cache; no poll begins for
\* a completed task; and the waker cache holds entries only for ids of the
\* task map.
C35_TaskLifecycle ==
    /\ [](/\ local.waker_cache \subseteq local.tasks
          /\ local.completed \cap local.tasks = {}
          /\ pc \in {"poll", "poll_return"} => local.task_id \in local.tasks)
    /\ [][/\ \A task_id \in local'.completed \ local.completed :
                /\ task_id = local.task_id
                /\ task_id \notin local'.tasks
                /\ task_id \notin local'.waker_cache
          /\ (PopStep /\ Head(local.task_queue) \in local.completed) =>
                /\ pc' = "run_ready_tasks"
                /\ local'.task_queue = Tail(local.task_queue)
                /\ local'.tasks = local.tasks
                /\ local'.waker_cache = local.waker_cache
          /\ (pc # "poll" /\ pc' = "poll") =>
                /\ local'.task_id \notin local.completed
                /\ local'.task_id = Head(local.task_queue)]_vars

\* C35's case: the id of a completed task was pushed by a waker that outlived
\* it and has been popped and skipped, while another task is still in the map
\* with its waker cached.
C35_Witness ==
    /\ local.skipped \cap local.completed # {}
    /\ local.waker_cache # {}
    /\ local.tasks # {}


\* How many times an id occurs in the task queue.
Occurrences(task_id) ==
    Cardinality({n \in 1..Len(local.task_queue) : local.task_queue[n] = task_id})

\* C36: the CPU halts only in a step taken with interrupts disabled and the
\* task queue empty, and that step enables interrupts; while it is halted the
\* queue is empty and interrupts are enabled; an id that is popped while its
\* task is in the map starts a poll of that task; and every id in the queue
\* is eventually popped, whatever the interrupts do.
C36_NoLostWakeup ==
    /\ [](/\ local.halted => (local.task_queue = <<>> /\ local.interrupts)
          /\ \A task_id \in 0..(MaxTasks - 1) : Occurrences(task_id) <= 1)
    /\ [][/\ (~local.halted /\ local'.halted) =>
                /\ ~local.interrupts
                /\ local.task_queue = <<>>
                /\ local'.interrupts
          /\ (PopStep /\ Head(local.task_queue) \in local.tasks) =>
                /\ pc' = "poll"
                /\ local'.task_id = Head(local.task_queue)]_vars
    /\ \A task_id \in 0..(MaxTasks - 1) :
          InQueue(task_id) ~> ~InQueue(task_id)

\* C36's case: an interrupt has pushed an id after sleep_if_idle saw the
\* queue empty and before it disabled interrupts, and the second is_empty is
\* about to run with interrupts disabled.
C36_Witness ==
    /\ pc = "recheck"
    /\ ~local.interrupts
    /\ local.task_queue # <<>>


\* ------------------------------------------------------------------------
\* The scancode stream: print_keypresses creates the stream and polls it;
\* the keyboard interrupt handler calls add_scancode between two steps of the
\* poll. `local` holds SCANCODE_QUEUE (initialized, queue), whether WAKER
\* holds a waker (waker), whether the id of the task is in the task queue of
\* the executor (woken), the scancode read last from the port (next), and two
\* records of the past: the scancodes pushed (pushed) and the scancodes
\* poll_next returned (delivered), in order.

\* The scancodes the keyboard sends and ArrayQueue::new(capacity).
MaxScancodes == 4
ScancodeCap == 2

\* SCANCODE_QUEUE and WAKER before ScancodeStream::new; the task was spawned,
\* so its id is in the task queue.
NewKeyboard ==
    [initialized |-> FALSE, queue |-> <<>>, waker |-> FALSE, woken |-> TRUE,
     next |-> 0, pushed |-> <<>>, delivered |-> <<>>]

NoScancode == "none"

\* ArrayQueue::pop: the oldest element, or an error on an empty queue.
pop(queue) ==
    IF queue = <<>> THEN [ok |-> FALSE, value |-> NoScancode, queue |-> queue]
    ELSE [ok |-> TRUE, value |-> Head(queue), queue |-> Tail(queue)]

\* A mutant of the pop that follows WAKER.register: the queue is not looked
\* at again.
second_pop_skipped(queue) ==
    [ok |-> FALSE, value |-> NoScancode, queue |-> queue]

\* The queue.pop() that follows WAKER.register in poll_next.
second_pop(queue) == pop(queue)

KbdInit ==
    /\ local = NewKeyboard
    /\ pc = "spawned"
    /\ ret = NoScancode
    /\ panicked = FALSE
    /\ arena = Arena(0, 0)
    /\ free = <<>>
    /\ live = {}
    /\ trace = <<>>
    /\ bump = BumpIdle
    /\ list_heads = NoBuckets
    /\ lock = NoCaller
    /\ arg = <<>>

KbdFrame ==
    UNCHANGED <<panicked, arena, free, live, trace, bump, list_heads, lock, arg>>

\* The executor pops the id of the task and polls it: the first poll runs
\* ScancodeStream::new, a later one resumes at scancodes.next().await.
ExecutorPoll ==
    /\ pc \in {"spawned", "pending"}
    /\ local.woken
    /\ local' = [local EXCEPT !.woken = FALSE, !.initialized = TRUE]
    /\ pc' = "poll_next"
    /\ UNCHANGED ret
    /\ KbdFrame

\* poll_next: the first queue.pop().
FirstPop ==
    /\ pc = "poll_next"
    /\ LET r == pop(local.queue)
       IN  IF r.ok
           THEN /\ local' = [local EXCEPT !.queue = r.queue,
                                          !.delivered = Append(local.delivered, r.value)]
                /\ ret' = r.value
                /\ pc' = "ready"
           ELSE /\ pc' = "register"
                /\ UNCHANGED <<local, ret>>
    /\ KbdFrame

\* WAKER.register(&cx.waker()).
Register ==
    /\ pc = "register"
    /\ local' = [local EXCEPT !.waker = TRUE]
    /\ pc' = "second_pop"
    /\ UNCHANGED ret
    /\ KbdFrame

\* The second queue.pop(): Pending on an empty queue.
SecondPop ==
    /\ pc = "second_pop"
    /\ LET r == second_pop(local.queue)
       IN  IF r.ok
           THEN /\ local' = [local EXCEPT !.queue = r.queue]
                /\ ret' = r.value
                /\ pc' = "take"
           ELSE /\ pc' = "pending"
                /\ UNCHANGED <<local, ret>>
    /\ KbdFrame

\* WAKER.take(), then Poll::Ready(Some(scancode)).
Take ==
    /\ pc = "take"
    /\ local' = [local EXCEPT !.waker = FALSE,
                              !.delivered = Append(local.delivered, ret)]
    /\ pc' = "ready"
    /\ UNCHANGED ret
    /\ KbdFrame

\* print_keypresses handles the scancode and polls the stream again, within
\* the same poll of the task.
NextScancode ==
    /\ pc = "ready"
    /\ pc' = "poll_next"
    /\ UNCHANGED <<local, ret>>
    /\ KbdFrame

\* The keyboard interrupt: add_scancode(scancode), run to its end between
\* two steps of the task. The scancode is dropped when the queue is not
\* initialised or full; otherwise it is pushed and WAKER.wake() wakes the
\* waker registered, if there is one.
AddScancode ==
    /\ local.next < MaxScancodes
    /\ LET scancode == local.next + 1
           seen == [local EXCEPT !.next = scancode]
       IN  local' =
             IF ~local.initialized \/ Len(local.queue) >= ScancodeCap
             THEN seen
             ELSE [seen EXCEPT !.queue = Append(local.queue, scancode),
                               !.pushed = Append(local.pushed, scancode),
                               !.waker = FALSE,
                               !.woken = local.woken \/ local.waker]
    /\ UNCHANGED <<pc, ret>>
    /\ KbdFrame

KbdNext ==
    \/ ExecutorPoll
    \/ FirstPop
    \/ Register
    \/ SecondPop
    \/ Take
    \/ NextScancode
    \/ AddScancode

SpecKbd == KbdInit /\ [][KbdNext]_vars

\* add_scancode has pushed its scancode in this step.
PushStep == Len(local'.pushed) > Len(local.pushed)

\* The scancodes poll_next has taken from the queue: those returned, and the
\* one held between the second pop and the return.
Taken == IF pc = "take" THEN Append(local.delivered, ret) ELSE local.delivered

\* C37: a push made while a waker is registered wakes it, and a push made
\* while none is registered finds the task inside a poll or already woken;
\* whenever poll_next has returned Pending and a scancode is in the queue,
\* the task has been woken; and the scancodes returned, followed by those
\* still in the queue, are the scancodes pushed, in push order.
C37_NoLostScancode ==
    /\ [](/\ (pc = "pending" /\ local.queue # <<>>) => local.woken
          /\ (pc = "pending" /\ ~local.woken) => local.waker
          /\ Taken \o local.queue = local.pushed)
    /\ [][PushStep =>
            /\ local.waker => (local'.woken /\ ~local'.waker)
            /\ ~local.waker => (pc # "pending" \/ local.woken)]_vars

\* C37's case: a scancode was pushed between the first pop and the
\* registration, when no waker could be woken, and the second pop has taken
\* it; an earlier scancode has been delivered.
C37_Witness ==
    /\ pc = "take"
    /\ ~local.woken
    /\ Len(local.delivered) >= 1

=============================================================================
